---- MODULE Spec2Model ----
(***************************************************************************)
(* Verification model of the anime-metadata-cache components:              *)
(*   - FileObjectStore   (persistence/file_store.py)                       *)
(*   - NullObjectStore   (persistence/file_store.py)                       *)
(*   - HTTPObjectStore   (persistence/http_store.py) with its throttlers   *)
(*   - CachedObjectStore (persistence/cached_store.py)                     *)
(*   - Throttler         (utils.py)                                        *)
(*   - SqliteAnimeMappingRepo, JsonAnimeMappingRepo (mapping/repo.py)      *)
(*   - SqliteTitleRepo, OverlayTitleRepo (anidb/titles.py)                 *)
(*   - AnidbTitleMatcher (mapping/title_matching.py)                       *)
(*   - the identifier codec and combine_anime (model.py)                   *)
(* Time is a discrete clock `now` that serves both as time.time() and as   *)
(* time.monotonic().  The clock advances only while every thread is at a   *)
(* suspension point (idle, blocked on the store lock, or waiting for an    *)
(* HTTP response).                                                         *)
(***************************************************************************)
EXTENDS Integers, Sequences, FiniteSets, TLC

VARIABLES
    now,        \* the clock
    files,      \* FileObjectStore used as cache: name -> file or NoFile
    backendKind,\* which store is the upstream of the CachedObjectStore
    errTime,    \* HTTPObjectStore._err_throttler.throttler._time
    reqTime,    \* HTTPObjectStore._req_throttler.throttler._time
    lockOwner,  \* CachedObjectStore._lock
    pc,         \* per thread: position in the current call
    call,       \* per thread: the call in progress
    last,       \* outcome of the call that completed last
    calls,      \* number of calls started so far
    lastErrAt,  \* history: time of the last non-404 error response
    fetchedAt,  \* history: per name, time of the last fetch written to cache
    ttlCase,    \* an object handed to _set_ttl: its own ttl, the ttu, the result
    lastReqAt,  \* history: time the last request of a direct caller started
    _time,      \* a Throttler on its own: Throttler._time
    _lock,      \* the _lock of the object in use (Throttler, JsonAnimeMappingRepo,
                \* PeristsedTitleRepo): the thread that holds it
    wpc,        \* per thread: position in Throttler.wait
    w,          \* per thread: what its wait call saw and when it returned
    order,      \* number of acquisitions of Throttler._lock so far
    markAt,     \* history: time of the caller's mark()
    rows,       \* SqliteAnimeMappingRepo: the anime_mapping table
    doc,        \* JsonAnimeMappingRepo: the document in the backend store
    _loaded,    \* JsonAnimeMappingRepo._loaded
    mapLast,    \* outcome of the mapping repository call that completed last
    base,       \* OverlayTitleRepo.base: the titles table of the lower repo
    upper,      \* OverlayTitleRepo.overlay: the titles table of the upper repo
    titleLast,  \* outcome of the title repository call that completed last
    _valid_until, \* PeristsedTitleRepo._valid_until
    _tmdb_repo, \* AnidbTitleMatcher._tmdb_repo: what the TMDB search answers
    matchLast,  \* outcome of the match_title call that completed last
    idCase,     \* a string handed to the identifier codec and what came back
    animeCase   \* the animes handed to combine_anime and what came back

vars == <<now, files, backendKind, errTime, reqTime, lockOwner, pc, call, last,
          calls, lastErrAt, fetchedAt, ttlCase, lastReqAt,
          _time, _lock, wpc, w, order, markAt, rows, doc, _loaded, mapLast,
          base, upper, titleLast, _valid_until, _tmdb_repo, matchLast, idCase,
          animeCase>>

storeVars == <<now, files, backendKind, errTime, reqTime, lockOwner, pc, call,
               last, calls, lastErrAt, fetchedAt, lastReqAt>>
ttlVars == <<ttlCase>>
waitVars == <<_time, _lock, wpc, w, order, markAt>>
mapVars == <<rows, doc, _loaded, mapLast>>
titleVars == <<base, upper, titleLast, _valid_until>>
matchVars == <<_tmdb_repo, matchLast>>
caseVars == <<idCase, animeCase>>
restVars == <<titleVars, matchVars, caseVars>>
otherVars == <<ttlVars, waitVars, mapVars, restVars>>
\* the stores' state without the clock
objVars == <<files, backendKind, errTime, reqTime, lockOwner, pc, call, last,
             calls, lastErrAt, fetchedAt, lastReqAt>>

---------------------------------------------------------------------------
(* Bounds of the model *)
MaxTime == 4
TTU == 2
ErrInterval == 2
ReqInterval == 1
Interval == 2
MaxValues == 2
NumThreads == 2
MaxCalls == 3
MaxOwnTtl == 4
MaxId == 10
MaxSeason == 3
MaxEpisodes == 3
MaxSharedCalls == 3
MaxFinds == 3

(* Program constants *)
Inf == 1000000
NoTime == -1
DefaultTtl == -1
NegInf == -Inf

Threads == 1..NumThreads
Names == {"k"}
Data == {"X", "YY"}
\* Last-Modified header of an upstream response: absent, or an old date
UpstreamLastModified == {NoTime, 0}

None == [tag |-> "none", v |-> 0]
NoFile == [exists |-> FALSE]

---------------------------------------------------------------------------
(* persistence/model.py *)

PyStr(t) == [tag |-> "str", v |-> t]
PyBool == [tag |-> "bool", v |-> 1]
PyNone == [tag |-> "none", v |-> 0]

\* format_mtime: float -> ISO-8601 string (the string is kept as a tagged time)
format_mtime(t) == PyStr(t)

\* parse_mtime(value, default) with default not None
parse_mtime(value, default) ==
    IF value.tag = "str" THEN value.v
    ELSE IF value.tag = "float" THEN value.v
    ELSE default

SizeOf(d) == IF d = "X" THEN 1 ELSE 2

Persisted(ctype, mtime, ftime, ttl, data) ==
    [content_type |-> ctype, last_modified |-> mtime, last_fetched |-> ftime,
     ttl |-> ttl, size |-> SizeOf(data), data |-> data]

PersistedStat(ctype, mtime, ftime, ttl, size) ==
    [content_type |-> ctype, last_modified |-> mtime, last_fetched |-> ftime,
     ttl |-> ttl, size |-> size, data |-> "-"]

\* Faulty variant: an object is not yet expired at the instant its ttl ends
is_expired_Strict(obj, ttl, t) ==
    IF ttl < 0 THEN FALSE
    ELSE t > obj.last_fetched + ttl

is_expired(obj, ttl, t) ==
    IF ttl < 0 THEN FALSE
    ELSE t >= obj.last_fetched + ttl

\* PersistedStat.expiry_time; Inf stands for float("inf")
expiry_time(obj) ==
    IF obj.ttl < 0 THEN Inf
    ELSE obj.last_fetched + obj.ttl

---------------------------------------------------------------------------
(* persistence/file_store.py: FileObjectStore, the cache store *)

MetaKeys == {"mime_type", "last_modified", "last_fetched"}

\* XAttrFile.get_attr: the attribute as a string, or None when it is missing
get_attr(f, key) == f.xattr[key]

\* FileObjectStore._get_metadata: `value := file.get_attr(key) is not None`
\* binds value to the comparison's result, so a present attribute is recorded
\* as the boolean True and a missing one is left out.
_get_metadata(f) ==
    [key \in {k \in MetaKeys : get_attr(f, k).tag # "none"} |-> PyBool]

DictGet(m, key) == IF key \in DOMAIN m THEN m[key] ELSE PyNone

\* guess_file_content_type: the user.mime_type attribute is leading
guess_file_content_type(f) ==
    IF f.xattr["mime_type"].tag = "str" THEN f.xattr["mime_type"].v
    ELSE "application/octet-stream"

\* FileObjectStore.stat: None stands for raising ObjectNotFound
FileStat(fs, name) ==
    IF ~fs[name].exists THEN None
    ELSE LET f == fs[name]
             metadata == _get_metadata(f)
             mtime == parse_mtime(DictGet(metadata, "last_modified"), f.st_mtime)
             ftime == parse_mtime(DictGet(metadata, "last_fetched"), mtime)
         IN PersistedStat(guess_file_content_type(f), mtime, ftime, DefaultTtl,
                          SizeOf(f.data))

\* FileObjectStore.get: stat, then the bytes (Persisted.with_data)
FileGet(fs, name) ==
    LET st == FileStat(fs, name)
    IN IF st = None THEN None
       ELSE Persisted(st.content_type, st.last_modified, st.last_fetched,
                      st.ttl, fs[name].data)

\* FileObjectStore.put: bytes, utime(mtime = last_modified), the three xattrs
FilePut(fs, name, obj) ==
    [fs EXCEPT ![name] =
        [exists |-> TRUE,
         data |-> obj.data,
         st_mtime |-> obj.last_modified,
         xattr |-> [mime_type |-> PyStr(obj.content_type),
                    last_modified |-> format_mtime(obj.last_modified),
                    last_fetched |-> format_mtime(obj.last_fetched)]]]

---------------------------------------------------------------------------
(* utils.py: Throttler (the state is its _time field, NoTime for None) *)

ThrottlerReset(tm) == NoTime
ThrottlerMark(tm, t) == t
\* Faulty variant: the comparison of check() turned around
ThrottlerCheck_Flipped(tm, interval, t) ==
    IF tm = NoTime THEN TRUE ELSE (t - tm) < interval

ThrottlerCheck(tm, interval, t) ==
    IF tm = NoTime THEN TRUE ELSE (t - tm) > interval

---------------------------------------------------------------------------
(* persistence/cached_store.py: CachedObjectStore helpers *)

\* Faulty variant: a positive own ttl is kept as it is
_set_ttl_NoClamp(obj, ttu) ==
    IF obj.ttl <= 0 THEN [obj EXCEPT !.ttl = ttu] ELSE obj

_set_ttl(obj, ttu) ==
    IF obj.ttl <= 0 THEN [obj EXCEPT !.ttl = ttu]
    ELSE [obj EXCEPT !.ttl = IF obj.ttl < ttu THEN obj.ttl ELSE ttu]

_head_cache(fs, name, max_age, t) ==
    LET st == FileStat(fs, name)
    IN IF st = None THEN None
       ELSE IF is_expired(st, max_age, t) THEN None
       ELSE _set_ttl(st, TTU)

_get_cache(fs, name, max_age, t) ==
    LET st == FileStat(fs, name)
    IN IF st = None THEN None
       ELSE IF is_expired(st, max_age, t) THEN None
       ELSE _set_ttl(FileGet(fs, name), TTU)

---------------------------------------------------------------------------
(* Threads and calls *)

NoOwner == 0
NoCall == [op |-> "none"]
NoRet == [op |-> "none"]
NoTtlCase == [own |-> 0, ttu |-> 0, applied |-> FALSE, out |-> 0]
Statuses == {200, 404, 500}

\* history: a non-404 error response arrived less than err_interval ago
ErrHot == lastErrAt # NoTime /\ now - lastErrAt < ErrInterval

NewCall(op, name, data, via) ==
    [op |-> op, name |-> name, data |-> data, via |-> via,
     emptyAtCall |-> ~files[name].exists,
     pre |-> "-", preData |-> "-", withinTtu |-> FALSE, errHot |-> ErrHot,
     up |-> "none", upData |-> "-", sent |-> FALSE, sentHot |-> FALSE,
     peer |-> "-", resp |-> 0]

\* history: the calls that were issued on an empty cache together with call c
\* of thread t and still wait for the lock when c has fetched the object
Peers(t, c) ==
    {u \in Threads \ {t} :
        /\ pc[u] = "lock" /\ call[u].op = "get" /\ call[u].name = c.name
        /\ call[u].emptyAtCall /\ c.emptyAtCall}

\* The call of thread t returns (status "ok") or raises (any other status)
\* and leaves the cache store as fs2.
Finish(t, c, status, obj, source, fs2) ==
    LET fetched == c.op = "get" /\ c.via = "cached" /\ source = "backend"
    IN
    /\ files' = fs2
    /\ lockOwner' = NoOwner
    /\ pc' = [pc EXCEPT ![t] = "idle"]
    /\ call' = [u \in Threads |->
                  IF u = t THEN NoCall
                  ELSE IF fetched /\ u \in Peers(t, c)
                       THEN [call[u] EXCEPT !.peer = obj.data]
                  ELSE call[u]]
    /\ fetchedAt' = IF fetched THEN [fetchedAt EXCEPT ![c.name] = now]
                    ELSE fetchedAt
    /\ last' =
         [op |-> c.op, name |-> c.name, via |-> c.via, status |-> status,
          data |-> IF status = "ok" /\ c.op # "put" THEN obj.data ELSE "-",
          size |-> IF status = "ok" /\ c.op # "put" THEN obj.size ELSE 0,
          ttl |-> IF status = "ok" /\ c.op # "put" THEN obj.ttl ELSE 0,
          source |-> source, pre |-> c.pre, preData |-> c.preData,
          emptyAtCall |-> c.emptyAtCall, withinTtu |-> c.withinTtu,
          errHot |-> c.errHot, up |-> c.up, upData |-> c.upData,
          sent |-> c.sent, sentHot |-> c.sentHot, putData |-> c.data,
          resp |-> c.resp,
          peer |-> c.peer,
          cached |-> IF fs2[c.name].exists THEN fs2[c.name].data ELSE "-",
          cacheChanged |-> fs2 # files]

---------------------------------------------------------------------------
(* persistence/cached_store.py: CachedObjectStore.get / stat / put *)

\* Faulty variant: no retry of the cache after a failed upstream call
AfterBackend_NoFallback(t, c, bobj) ==
    IF bobj # None
    THEN LET o == _set_ttl(bobj, TTU)
         IN Finish(t, c, "ok", o, "backend",
                   IF c.op = "get" THEN FilePut(files, c.name, o) ELSE files)
    ELSE Finish(t, c, "ObjectNotFound", None, "-", files)

\* Faulty variant: a failed upstream call evicts the entry it could not refresh
AfterBackend_Evict(t, c, bobj) ==
    IF bobj # None
    THEN LET o == _set_ttl(bobj, TTU)
         IN Finish(t, c, "ok", o, "backend",
                   IF c.op = "get" THEN FilePut(files, c.name, o) ELSE files)
    ELSE LET o == IF c.op = "get" THEN _get_cache(files, c.name, Inf, now)
                  ELSE _head_cache(files, c.name, Inf, now)
         IN IF o # None
            THEN Finish(t, c, "ok", o, "stale", [files EXCEPT ![c.name] = NoFile])
            ELSE Finish(t, c, "ObjectNotFound", None, "-", files)

\* Faulty variant: the fetched object is returned without being put into the cache
AfterBackend_NoStore(t, c, bobj) ==
    IF bobj # None
    THEN Finish(t, c, "ok", _set_ttl(bobj, TTU), "backend", files)
    ELSE LET o == IF c.op = "get" THEN _get_cache(files, c.name, Inf, now)
                  ELSE _head_cache(files, c.name, Inf, now)
         IN IF o # None THEN Finish(t, c, "ok", o, "stale", files)
            ELSE Finish(t, c, "ObjectNotFound", None, "-", files)

\* get, lines 103-115, and stat, lines 50-60: the backend answered bobj
\* (None: it raised ObjectNotFound)
AfterBackend(t, c, bobj) ==
    IF bobj # None
    THEN LET o == _set_ttl(bobj, TTU)
         IN Finish(t, c, "ok", o, "backend",
                   IF c.op = "get" THEN FilePut(files, c.name, o) ELSE files)
    ELSE LET o == IF c.op = "get" THEN _get_cache(files, c.name, Inf, now)
                  ELSE _head_cache(files, c.name, Inf, now)
         IN IF o # None THEN Finish(t, c, "ok", o, "stale", files)
            ELSE Finish(t, c, "ObjectNotFound", None, "-", files)

\* _get_backend / _head_backend: the HTTP store needs several steps, the
\* NullObjectStore raises ObjectNotFound at once
BackendCall(t, c) ==
    IF backendKind = "null"
    THEN AfterBackend(t, [c EXCEPT !.up = "nf"], None)
    ELSE /\ pc' = [pc EXCEPT ![t] = "http_check"]
         /\ call' = [call EXCEPT ![t] = c]
         /\ lockOwner' = t
         /\ UNCHANGED <<files, last, fetchedAt>>

\* Faulty variant: the cache is written before the backend is asked
CachedPutBody_CacheFirst(t, c) ==
    LET obj == Persisted("application/octet-stream", now, now, DefaultTtl, c.data)
    IN IF backendKind = "http"
       THEN Finish(t, [c EXCEPT !.up = "wns"], "WriteNotSupported", None, "-",
                   FilePut(files, c.name, obj))
       ELSE Finish(t, [c EXCEPT !.up = "ok"], "ok", obj, "-",
                   FilePut(files, c.name, obj))

\* put: the backend first (HTTPObjectStore.put raises WriteNotSupported,
\* NullObjectStore.put passes), then the cache
CachedPutBody(t, c) ==
    LET obj == Persisted("application/octet-stream", now, now, DefaultTtl, c.data)
    IN IF backendKind = "http"
       THEN Finish(t, [c EXCEPT !.up = "wns"], "WriteNotSupported", None, "-", files)
       ELSE Finish(t, [c EXCEPT !.up = "ok"], "ok", obj, "-",
                   FilePut(files, c.name, obj))

\* A thread calls get, stat or put of the cached store and queues for its lock
CachedCall(t, op, name, data) ==
    /\ pc[t] = "idle"
    /\ calls < MaxCalls
    /\ calls' = calls + 1
    /\ pc' = [pc EXCEPT ![t] = "lock"]
    /\ call' = [call EXCEPT ![t] = NewCall(op, name, data, "cached")]
    /\ UNCHANGED <<now, files, backendKind, errTime, reqTime, lockOwner, last,
                   lastErrAt, fetchedAt, lastReqAt, otherVars>>

\* The thread takes the lock and runs up to the first suspension point
CachedEnter(t) ==
    /\ pc[t] = "lock"
    /\ lockOwner = NoOwner
    /\ LET c0 == call[t]
           st == FileStat(files, c0.name)
           c == [c0 EXCEPT
                   !.pre = IF st = None THEN "absent"
                           ELSE IF is_expired(st, TTU, now) THEN "stale"
                           ELSE "fresh",
                   !.preData = IF st = None THEN "-" ELSE files[c0.name].data,
                   !.withinTtu = /\ fetchedAt[c0.name] # NoTime
                                 /\ now < fetchedAt[c0.name] + TTU,
                   !.errHot = ErrHot]
           hit == IF c.op = "get" THEN _get_cache(files, c.name, TTU, now)
                  ELSE _head_cache(files, c.name, TTU, now)
       IN IF c.op = "put" THEN CachedPutBody(t, c)
          ELSE IF hit # None THEN Finish(t, c, "ok", hit, "cache", files)
          ELSE BackendCall(t, c)
    /\ UNCHANGED <<now, backendKind, errTime, reqTime, calls, lastErrAt, lastReqAt, otherVars>>

---------------------------------------------------------------------------
(* persistence/http_store.py: HTTPObjectStore *)

BackendReturn(t, c, obj) ==
    IF c.via = "cached" THEN AfterBackend(t, c, obj)
    ELSE IF obj # None THEN Finish(t, c, "ok", obj, "backend", files)
    ELSE Finish(t, c, "ObjectNotFound", None, "-", files)

\* A thread calls stat or get of the HTTP store itself
HttpCall(t, op, name) ==
    /\ pc[t] = "idle"
    /\ calls < MaxCalls
    /\ calls' = calls + 1
    /\ pc' = [pc EXCEPT ![t] = "http_check"]
    /\ call' = [call EXCEPT ![t] = NewCall(op, name, "-", "direct")]
    /\ UNCHANGED <<now, files, backendKind, errTime, reqTime, lockOwner, last,
                   lastErrAt, fetchedAt, lastReqAt, otherVars>>

\* _http, lines 83-84: the error throttler's check
HttpCheck(t) ==
    /\ pc[t] = "http_check"
    /\ IF ThrottlerCheck(errTime, ErrInterval, now)
       THEN /\ pc' = [pc EXCEPT ![t] = "http_request"]
            /\ UNCHANGED <<files, lockOwner, call, last, fetchedAt>>
       ELSE BackendReturn(t, [call[t] EXCEPT !.up = "nf"], None)
    /\ UNCHANGED <<now, backendKind, errTime, reqTime, calls, lastErrAt, lastReqAt, otherVars>>

\* _http, lines 87-97: the request throttler's wait (it returns at once while
\* its _time is None), then the request leaves
HttpRequest(t) ==
    /\ pc[t] = "http_request"
    /\ reqTime = NoTime
    /\ pc' = [pc EXCEPT ![t] = "http_inflight"]
    /\ call' = [call EXCEPT ![t].sent = TRUE, ![t].sentHot = ErrHot]
    /\ lastReqAt' = IF call[t].via = "direct" THEN now ELSE lastReqAt
    /\ UNCHANGED <<now, files, backendKind, errTime, reqTime, lockOwner, last,
                   calls, lastErrAt, fetchedAt, otherVars>>

\* Faulty variant: every response that is not ok marks the error throttler
HttpResponse_Mark404(t, status, data, lastmod) ==
    /\ pc[t] = "http_inflight"
    /\ LET c == call[t]
           mtime == IF lastmod = NoTime THEN now ELSE lastmod
           obj == IF c.op = "get"
                  THEN Persisted("text/xml", mtime, now, DefaultTtl, data)
                  ELSE PersistedStat("text/xml", mtime, now, DefaultTtl, SizeOf(data))
       IN IF status = 200
          THEN /\ errTime' = ThrottlerReset(errTime)
               /\ lastErrAt' = lastErrAt
               /\ BackendReturn(t, [c EXCEPT !.up = "ok", !.upData = data,
                                               !.resp = status], obj)
          ELSE /\ errTime' = ThrottlerMark(errTime, now)
               /\ lastErrAt' = IF status # 404 THEN now ELSE lastErrAt
               /\ BackendReturn(t, [c EXCEPT !.up = "nf", !.resp = status], None)
    /\ UNCHANGED <<now, backendKind, reqTime, calls, lastReqAt, otherVars>>

\* _http, lines 99-113, and stat/get, lines 162-180: the response arrives
HttpResponse(t, status, data, lastmod) ==
    /\ pc[t] = "http_inflight"
    /\ LET c == call[t]
           mtime == IF lastmod = NoTime THEN now ELSE lastmod
           obj == IF c.op = "get"
                  THEN Persisted("text/xml", mtime, now, DefaultTtl, data)
                  ELSE PersistedStat("text/xml", mtime, now, DefaultTtl, SizeOf(data))
       IN IF status = 200
          THEN /\ errTime' = ThrottlerReset(errTime)
               /\ lastErrAt' = lastErrAt
               /\ BackendReturn(t, [c EXCEPT !.up = "ok", !.upData = data,
                                               !.resp = status], obj)
          ELSE /\ errTime' = IF status # 404 THEN ThrottlerMark(errTime, now)
                             ELSE errTime
               /\ lastErrAt' = IF status # 404 THEN now ELSE lastErrAt
               /\ BackendReturn(t, [c EXCEPT !.up = "nf", !.resp = status], None)
    /\ UNCHANGED <<now, backendKind, reqTime, calls, lastReqAt, otherVars>>

\* _http, lines 92-97: requests.request raises (connection refused, timeout,
\* ...).  Neither throttler is touched; the exception is no ObjectNotFound, so
\* neither stat/get of the HTTP store nor _get_backend / _head_backend of the
\* cached store catches it: the call ends with it and, through the `with`
\* statement, the store lock is released.
HttpFailure(t) ==
    /\ pc[t] = "http_inflight"
    /\ Finish(t, [call[t] EXCEPT !.up = "exc"], "RequestException", None, "-",
              files)
    /\ UNCHANGED <<now, backendKind, errTime, reqTime, calls, lastErrAt, lastReqAt, otherVars>>

\* Faulty variant: put counts as an upstream error
HttpPut_Marks(t, name, data) ==
    /\ pc[t] = "idle"
    /\ calls < MaxCalls
    /\ calls' = calls + 1
    /\ Finish(t, [NewCall("put", name, data, "direct") EXCEPT !.up = "wns"],
              "WriteNotSupported", None, "-", files)
    /\ errTime' = ThrottlerMark(errTime, now)
    /\ UNCHANGED <<now, backendKind, reqTime, lastErrAt, lastReqAt, otherVars>>

\* HTTPObjectStore.put called directly: it raises WriteNotSupported
HttpPut(t, name, data) ==
    /\ pc[t] = "idle"
    /\ calls < MaxCalls
    /\ calls' = calls + 1
    /\ Finish(t, [NewCall("put", name, data, "direct") EXCEPT !.up = "wns"],
              "WriteNotSupported", None, "-", files)
    /\ UNCHANGED <<now, backendKind, errTime, reqTime, lastErrAt, lastReqAt,
                   otherVars>>

---------------------------------------------------------------------------
(* CachedObjectStore.stat and get side by side, over an HTTP store and over *)
(* the API stores of anidb/anime.py and tmdb/shows.py                       *)

StoreKinds == {"http", "anidb", "tmdb"}

\* what the upstream would answer to a request for the name right now
UpstreamAnswers ==
    {[ok |-> FALSE, data |-> "-", lastmod |-> NoTime]}
        \cup {[ok |-> TRUE, data |-> d, lastmod |-> lm] :
                d \in Data, lm \in UpstreamLastModified}

\* backend.get: HTTPObjectStore.get, AnidbApiAnimeStore (the same with the
\* API errors raised as ObjectNotFound) and TmdbApiShowStore.get (a new
\* Persisted with the composed blob); None stands for ObjectNotFound
backend_get(kind, answer, t) ==
    IF ~answer.ok THEN None
    ELSE IF kind = "tmdb" THEN Persisted("text/json", t, t, DefaultTtl, answer.data)
    ELSE Persisted("text/xml", IF answer.lastmod = NoTime THEN t ELSE answer.lastmod,
                   t, DefaultTtl, answer.data)

\* backend.stat: HTTPObjectStore.stat sends a HEAD request; the API stores
\* return PersistedStat(content_type=...) without reaching out
backend_stat(kind, answer, t) ==
    IF kind = "anidb" THEN PersistedStat("text/xml", t, t, DefaultTtl, 0)
    ELSE IF kind = "tmdb" THEN PersistedStat("text/json", t, t, DefaultTtl, 0)
    ELSE IF ~answer.ok THEN None
    ELSE PersistedStat("text/xml",
                       IF answer.lastmod = NoTime THEN t ELSE answer.lastmod,
                       t, DefaultTtl, SizeOf(answer.data))

\* CachedObjectStore.get, lines 95-115, and stat, lines 43-60, as a function
\* of the cache, the time and the backend's answer bobj
cached_read(op, fs, name, t, bobj) ==
    LET fresh == IF op = "get" THEN _get_cache(fs, name, TTU, t)
                 ELSE _head_cache(fs, name, TTU, t)
        stale == IF op = "get" THEN _get_cache(fs, name, Inf, t)
                 ELSE _head_cache(fs, name, Inf, t)
    IN IF fresh # None THEN [status |-> "ok", source |-> "cache", obj |-> fresh]
       ELSE IF bobj # None
       THEN [status |-> "ok", source |-> "backend", obj |-> _set_ttl(bobj, TTU)]
       ELSE IF stale # None THEN [status |-> "ok", source |-> "stale", obj |-> stale]
       ELSE [status |-> "ObjectNotFound", source |-> "-", obj |-> None]

\* the cache holds nothing for the name, or what an earlier get has put
CacheStates ==
    {[n \in Names |-> NoFile]}
        \cup {FilePut([n \in Names |-> NoFile], name,
                      Persisted("text/xml", m, f, TTU, d)) :
                name \in Names, m \in 0..MaxTime, f \in 0..MaxTime, d \in Data}

\* stat(name) and get(name) of one CachedObjectStore in the same state
MirrorRead(name, answer) ==
    /\ last.op = "none"
    /\ last' = [op |-> "mirror", name |-> name, answer |-> answer,
                stat |-> cached_read("stat", files, name, now,
                                     backend_stat(backendKind, answer, now)),
                get |-> cached_read("get", files, name, now,
                                    backend_get(backendKind, answer, now))]
    /\ UNCHANGED <<now, files, backendKind, errTime, reqTime, lockOwner, pc, call,
                   calls, lastErrAt, fetchedAt, lastReqAt, otherVars>>

---------------------------------------------------------------------------
(* tmdb/shows.py: TmdbApiShowStore.get composes one blob out of the answers
   to a series of API requests, each sent through HTTPObjectStore._http.  A
   show has `seasons` seasons with `episodes` episodes each; at most one of
   its requests (failAt, 0 for none) gets an answer other than a JSON
   document *)

ApiAnswers == {"ok", "404", "500", "nojson", "exc"}

ShowRequest(kind, s, e) == [kind |-> kind, season |-> s, episode |-> e]

\* the loop over the episodes of season s, lines 96-101
RECURSIVE episode_requests(_, _, _)
episode_requests(s, e, m) ==
    IF e > m THEN <<>>
    ELSE <<ShowRequest("episode", s, e), ShowRequest("episode_images", s, e)>>
         \o episode_requests(s, e + 1, m)

\* the loop over the seasons, lines 88-101
RECURSIVE season_requests(_, _, _)
season_requests(s, n, m) ==
    IF s > n THEN <<>>
    ELSE <<ShowRequest("season", s, 0), ShowRequest("season_images", s, 0),
           ShowRequest("aggregate_credits", s, 0)>>
         \o episode_requests(s, 1, m)
         \o season_requests(s + 1, n, m)

\* the requests of get in the order of the code
show_requests(n, m) ==
    <<ShowRequest("root", 0, 0), ShowRequest("images", 0, 0),
      ShowRequest("alternative_titles", 0, 0)>>
    \o season_requests(1, n, m)

\* HTTPObjectStore._http: the error throttler is checked, the request
\* throttler waited for, the request sent; an answer that is ok resets the
\* error throttler, an error other than 404 marks it; requests.request may
\* raise its own exception
_http(errT, t, answer) ==
    IF ~ThrottlerCheck(errT, ErrInterval, t)
    THEN [status |-> "ObjectNotFound", sent |-> FALSE, errT |-> errT]
    ELSE CASE answer = "exc"
                -> [status |-> "RequestException", sent |-> TRUE, errT |-> errT]
           [] answer = "404"
                -> [status |-> "ObjectNotFound", sent |-> TRUE, errT |-> errT]
           [] answer = "500"
                -> [status |-> "ObjectNotFound", sent |-> TRUE,
                    errT |-> ThrottlerMark(errT, t)]
           [] OTHER
                -> [status |-> "ok", sent |-> TRUE, errT |-> ThrottlerReset(errT)]

\* Faulty variant: a body that is no JSON counts as an empty document
_api_json_Lenient(errT, t, answer) == _http(errT, t, answer)

\* _api_json: response.json() raises JSONDecodeError for a body that is no
\* JSON, reported as ObjectNotFound
_api_json(errT, t, answer) ==
    LET resp == _http(errT, t, answer)
    IN IF resp.status = "ok" /\ answer = "nojson"
       THEN [resp EXCEPT !.status = "ObjectNotFound"]
       ELSE resp

\* the answer to the i-th request of a plan
AnswerAt(plan, i) == IF i = plan.failAt THEN plan.failure ELSE "ok"

\* get, lines 84-101: the requests one after the other; the first one that
\* raises ends the call
RECURSIVE api_calls(_, _, _, _, _)
api_calls(reqs, plan, i, errT, t) ==
    IF i > Len(reqs)
    THEN [status |-> "ok", sent |-> Len(reqs), checks |-> Len(reqs),
          errT |-> errT, parts |-> reqs]
    ELSE LET r == _api_json(errT, t, AnswerAt(plan, i))
         IN IF r.status # "ok"
            THEN [status |-> r.status,
                  sent |-> IF r.sent THEN i ELSE i - 1, checks |-> i,
                  errT |-> r.errT, parts |-> <<>>]
            ELSE api_calls(reqs, plan, i + 1, r.errT, t)

\* TmdbApiShowStore.get; _parse_name raises ObjectNotFound for a name
\* without a known language or without the suffix .json
show_get(plan, errT, t) ==
    LET out == api_calls(show_requests(plan.seasons, plan.episodes), plan, 1,
                         errT, t)
    IN IF ~plan.valid
       THEN [status |-> "ObjectNotFound", sent |-> 0, checks |-> 0,
             errT |-> errT, parts |-> <<>>, obj |-> None]
       ELSE IF out.status # "ok"
       THEN [status |-> out.status, sent |-> out.sent, checks |-> out.checks,
             errT |-> out.errT, parts |-> <<>>, obj |-> None]
       ELSE [status |-> "ok", sent |-> out.sent, checks |-> out.checks,
             errT |-> out.errT, parts |-> out.parts,
             obj |-> Persisted("text/json", t, t, DefaultTtl, "YY")]

\* what the cache above the store may hold for the show: nothing, or a blob
\* fetched at time 0
ShowCaches ==
    {[n \in Names |-> NoFile]}
        \cup {FilePut([n \in Names |-> NoFile], name,
                      Persisted("text/json", 0, 0, TTU, "X")) : name \in Names}

\* CachedObjectStore.get over a TmdbApiShowStore, cached_store.py lines
\* 95-115: _get_backend catches ObjectNotFound and nothing else
ShowGet(name) ==
    /\ last.op = "plan"
    /\ LET fresh == _get_cache(files, name, TTU, now)
           b == IF fresh # None
                THEN [status |-> "none", sent |-> 0, checks |-> 0,
                      errT |-> errTime, parts |-> <<>>, obj |-> None]
                ELSE show_get(last, errTime, now)
           raised == b.status \notin {"none", "ok", "ObjectNotFound"}
           out == cached_read("get", files, name, now, b.obj)
       IN /\ files' = IF b.obj # None
                       THEN FilePut(files, name, _set_ttl(b.obj, TTU))
                       ELSE files
          /\ errTime' = b.errT
          /\ last' = [op |-> "get", name |-> name, plan |-> last,
                      before |-> files, errHot |-> ~ThrottlerCheck(errTime, ErrInterval, now),
                      backend |-> [status |-> b.status, sent |-> b.sent,
                                   checks |-> b.checks, parts |-> b.parts],
                      status |-> IF raised THEN b.status ELSE out.status,
                      source |-> IF raised THEN "-" ELSE out.source]
    /\ UNCHANGED <<now, backendKind, reqTime, lockOwner, pc, call, calls,
                   lastErrAt, fetchedAt, lastReqAt, otherVars>>

---------------------------------------------------------------------------
(* The clock *)

Blocked(t) ==
    \/ pc[t] \in {"idle", "http_inflight"}
    \/ pc[t] = "lock" /\ lockOwner # NoOwner

Tick ==
    /\ now < MaxTime
    /\ \A t \in Threads : Blocked(t)
    /\ now' = now + 1
    \* the histories are kept only while their window is open
    /\ lastErrAt' = IF lastErrAt # NoTime /\ now' - lastErrAt < ErrInterval
                    THEN lastErrAt ELSE NoTime
    /\ fetchedAt' = [n \in Names |->
                       IF fetchedAt[n] # NoTime /\ now' < fetchedAt[n] + TTU
                       THEN fetchedAt[n] ELSE NoTime]
    /\ lastReqAt' = IF lastReqAt # NoTime /\ now' - lastReqAt < ReqInterval
                    THEN lastReqAt ELSE NoTime
    /\ UNCHANGED <<files, backendKind, errTime, reqTime, lockOwner, pc, call,
                   last, calls, otherVars>>

---------------------------------------------------------------------------
(* mapping/model.py and mapping/repo.py: SqliteAnimeMappingRepo *)

AnidbIds == {"a1", "a2"}
TmdbIds == {"t1", "t2"}

AnimeMapping(a, t) == [anidb |-> a, tmdb |-> t]

\* the mappings a caller may pass: complete ones and ones that lack an id
Mappings ==
    {AnimeMapping(a, t) : a \in AnidbIds, t \in TmdbIds}
        \cup {AnimeMapping("", "t1"), AnimeMapping("a1", ""), AnimeMapping("", "")}

ValueLists == UNION {[1..n -> Mappings] : n \in 0..MaxValues}

Range(seq) == {seq[i] : i \in DOMAIN seq}

\* _query_id: the rows whose field has the value (all rows for field '')
_query_id(tbl, field_name, field_value) ==
    {AnimeMapping(r[1], r[2]) :
        r \in {x \in tbl : \/ field_name = ""
                            \/ (field_name = "anidb_id" /\ x[1] = field_value)
                            \/ (field_name = "tmdb_id" /\ x[2] = field_value)}}

\* The outcome of a call: raised or not, the returned mappings, the table
Outcome(status, result, tbl) == [status |-> status, result |-> result, rows |-> tbl]

resolve_tmdb(tbl, query) ==
    IF query.anidb = "" THEN Outcome("ValueError", {}, tbl)
    ELSE Outcome("ok", _query_id(tbl, "anidb_id", query.anidb), tbl)

resolve_anidb(tbl, query) ==
    IF query.tmdb = "" THEN Outcome("ValueError", {}, tbl)
    ELSE Outcome("ok", _query_id(tbl, "tmdb_id", query.tmdb), tbl)

load(tbl, query) ==
    IF query.tmdb = "" \/ query.anidb = "" THEN Outcome("ValueError", {}, tbl)
    ELSE Outcome("ok", {AnimeMapping(r[1], r[2]) :
                          r \in {x \in tbl : x = <<query.anidb, query.tmdb>>}}, tbl)

\* Faulty variant: the rows to replace are found by the anidb id alone
store_DeleteByAnidb(tbl, values, replace) ==
    IF \E i \in DOMAIN values : values[i].tmdb = "" \/ values[i].anidb = ""
    THEN Outcome("ValueError", {}, tbl)
    ELSE LET data == {<<v.anidb, v.tmdb>> : v \in Range(values)}
             kept == IF replace
                     THEN {r \in tbl : ~\E d \in data : r[1] = d[1]}
                     ELSE tbl
         IN Outcome("ok", {}, kept \cup data)

\* Faulty variant: the pairs in front of an invalid one are written
store_Partial(tbl, values, replace) ==
    LET bad == {i \in DOMAIN values : values[i].tmdb = "" \/ values[i].anidb = ""}
        good == {i \in DOMAIN values : \A j \in bad : i < j}
        data == {<<values[i].anidb, values[i].tmdb>> : i \in good}
        kept == IF replace
                THEN {r \in tbl : ~\E d \in data : r[1] = d[1] \/ r[2] = d[2]}
                ELSE tbl
    IN Outcome(IF bad = {} THEN "ok" ELSE "ValueError", {}, kept \cup data)

\* store: every value is checked first; then, in one transaction, the DELETE
\* is run for every pair (replace) and after that the INSERT for every pair
store(tbl, values, replace) ==
    IF \E i \in DOMAIN values : values[i].tmdb = "" \/ values[i].anidb = ""
    THEN Outcome("ValueError", {}, tbl)
    ELSE LET data == {<<v.anidb, v.tmdb>> : v \in Range(values)}
             kept == IF replace
                     THEN {r \in tbl : ~\E d \in data : r[1] = d[1] \/ r[2] = d[2]}
                     ELSE tbl
         IN Outcome("ok", {}, kept \cup data)

\* remove: DELETE ... WHERE over the ids that are set; nothing without ids
remove(tbl, value) ==
    IF value.tmdb = "" /\ value.anidb = "" THEN Outcome("ok", {}, tbl)
    ELSE Outcome("ok", {},
                 {r \in tbl : ~(/\ (value.tmdb # "" => r[2] = value.tmdb)
                                /\ (value.anidb # "" => r[1] = value.anidb))})

dump(tbl) == Outcome("ok", _query_id(tbl, "", ""), tbl)

purge(tbl) == Outcome("ok", {}, {})

\* the backend holds no document: backend.get raises ObjectNotFound
NoDoc == [exists |-> FALSE, enc |-> "json", items |-> <<>>]

NoMapCall == [op |-> "none", values |-> <<>>, replace |-> FALSE,
              query |-> AnimeMapping("", ""), status |-> "ok", result |-> {},
              before |-> {}, putOk |-> TRUE]

MapCall(op, values, replace, query, out, putOk) ==
    [op |-> op, values |-> values, replace |-> replace, query |-> query,
     status |-> out.status, result |-> out.result, before |-> rows,
     putOk |-> putOk]

\* model.Title; a title value is a sequence of characters, the other
\* fields are atoms, and '' is the empty sequence or the empty string
Title(value, aid, lang, type) ==
    [value |-> value, aid |-> aid, lang |-> lang, type |-> type]

NoTitleCall == [op |-> "none", repo |-> "none", query |-> Title(<<>>, "", "", ""),
                status |-> "ok", result |-> <<>>]
NoMatchCall == [op |-> "none"]
NoIdCase == [op |-> "none"]
NoAnimeCase == [op |-> "none"]

\* the components that a specification does not use
InitRest ==
    /\ base = {}
    /\ upper = {}
    /\ titleLast = NoTitleCall
    /\ _valid_until = NegInf
    /\ _tmdb_repo = {}
    /\ matchLast = NoMatchCall
    /\ idCase = NoIdCase
    /\ animeCase = NoAnimeCase

\* SqliteAnimeMappingRepo.__init__ (and a JsonAnimeMappingRepo not yet used)
InitMapping ==
    /\ rows = {}
    /\ doc = NoDoc
    /\ _loaded = FALSE
    /\ mapLast = NoMapCall
    /\ InitRest

\* One call of the repository; each runs under the repository's lock
SqliteCall(op, values, replace, query) ==
    LET out == CASE op = "store" -> store(rows, values, replace)
                 [] op = "remove" -> remove(rows, query)
                 [] op = "purge" -> purge(rows)
                 [] op = "dump" -> dump(rows)
                 [] op = "load" -> load(rows, query)
                 [] op = "resolve_tmdb" -> resolve_tmdb(rows, query)
                 [] op = "resolve_anidb" -> resolve_anidb(rows, query)
    IN /\ rows' = out.rows
       /\ mapLast' = MapCall(op, values, replace, query, out, TRUE)
       /\ UNCHANGED <<storeVars, ttlVars, restVars, waitVars, doc, _loaded>>

SqliteStore(values, replace) == SqliteCall("store", values, replace, AnimeMapping("", ""))
SqliteRemove(value) == SqliteCall("remove", <<>>, FALSE, value)
SqlitePurge == SqliteCall("purge", <<>>, FALSE, AnimeMapping("", ""))
SqliteDump == SqliteCall("dump", <<>>, FALSE, AnimeMapping("", ""))
SqliteQuery(op, query) == SqliteCall(op, <<>>, FALSE, query)

---------------------------------------------------------------------------
(* mapping/repo.py: JsonAnimeMappingRepo over an object store, with a      *)
(* SqliteAnimeMappingRepo (the table `rows`) as its cache                  *)

RECURSIVE SetToSeq(_)
SetToSeq(S) ==
    IF S = {} THEN <<>>
    ELSE LET x == CHOOSE y \in S : TRUE IN <<x>> \o SetToSeq(S \ {x})

_to_json(value) == [anidb |-> value.anidb, tmdb |-> value.tmdb]
_from_json(value) == AnimeMapping(value.anidb, value.tmdb)

\* value['anidb'] and value['tmdb'] of _from_json find their keys
HasKeys(value) == {"anidb", "tmdb"} \subseteq DOMAIN value

\* _load: once per instance, the cache is purged and filled from the
\* document.  A missing document, undecodable bytes, malformed JSON and a
\* ValueError of cache.store are caught and leave the cache empty; the
\* KeyError of _from_json on an entry without its keys is not caught and
\* leaves _loaded unset.
_load(tbl, loaded, d) ==
    IF loaded THEN [status |-> "ok", rows |-> tbl]
    ELSE IF ~d.exists THEN [status |-> "ok", rows |-> purge(tbl).rows]
    ELSE IF d.enc # "json" THEN [status |-> "ok", rows |-> purge(tbl).rows]
    ELSE IF \E i \in DOMAIN d.items : ~HasKeys(d.items[i])
         THEN [status |-> "KeyError", rows |-> purge(tbl).rows]
    ELSE LET items == [i \in DOMAIN d.items |-> _from_json(d.items[i])]
         IN [status |-> "ok", rows |-> store(purge(tbl).rows, items, FALSE).rows]

\* _save: the whole dump of the cache as one JSON list
_save(tbl) ==
    [exists |-> TRUE, enc |-> "json",
     items |-> LET l == SetToSeq(dump(tbl).result)
               IN [i \in DOMAIN l |-> _to_json(l[i])]]

\* store, remove, purge and dump: under the lock, _load, the call on the
\* cache, and for a mutation _save, whose backend.put passes or raises
JsonCall(op, values, replace, query, putOk) ==
    LET ld == _load(rows, _loaded, doc)
        tbl == ld.rows
        out == CASE op = "store" -> store(tbl, values, replace)
                 [] op = "remove" -> remove(tbl, query)
                 [] op = "purge" -> purge(tbl)
                 [] op = "dump" -> dump(tbl)
        saves == op # "dump" /\ out.status = "ok"
    IN IF ld.status # "ok"
       THEN /\ rows' = ld.rows
            /\ mapLast' = [NoMapCall EXCEPT
                             !.op = op, !.putOk = putOk, !.status = ld.status]
            /\ UNCHANGED <<storeVars, ttlVars, restVars, waitVars, doc, _loaded>>
       ELSE /\ rows' = out.rows
            /\ _loaded' = TRUE
            /\ doc' = IF saves /\ putOk THEN _save(out.rows) ELSE doc
            /\ mapLast' = [NoMapCall EXCEPT
                             !.op = op, !.putOk = putOk,
                             !.status = IF saves /\ ~putOk THEN "PutError"
                                        ELSE out.status]
            /\ UNCHANGED <<storeVars, ttlVars, restVars, waitVars>>

JsonStore(values, replace, putOk) ==
    JsonCall("store", values, replace, AnimeMapping("", ""), putOk)
JsonRemove(value, putOk) == JsonCall("remove", <<>>, FALSE, value, putOk)
JsonPurge(putOk) == JsonCall("purge", <<>>, FALSE, AnimeMapping("", ""), putOk)
JsonDump == JsonCall("dump", <<>>, FALSE, AnimeMapping("", ""), TRUE)

\* A new JsonAnimeMappingRepo over the same backend, with an empty cache
JsonNewInstance ==
    /\ _loaded
    /\ rows' = {}
    /\ _loaded' = FALSE
    /\ mapLast' = NoMapCall
    /\ UNCHANGED <<storeVars, ttlVars, restVars, waitVars, doc>>

---------------------------------------------------------------------------
(* mapping/repo.py: one JsonAnimeMappingRepo called by several threads.    *)
(* Here _lock is JsonAnimeMappingRepo._lock, pc and call are the threads'  *)
(* positions in store / remove / purge / dump, and mapLast carries the     *)
(* histories: reads counts backend.get calls, applied is the table that    *)
(* results from running the calls one after the other, in the order in     *)
(* which they reached the cache, mutated tells whether one has changed it  *)
(* and failed whether a backend.put has raised                             *)

NoSharedCall == [op |-> "none", status |-> "ok", reads |-> 0, applied |-> {},
                 mutated |-> FALSE, failed |-> FALSE]

\* the pairs the threads store and remove
SharedPairs == {AnimeMapping("a1", "t1"), AnimeMapping("a1", "t2"),
                AnimeMapping("a2", "t2")}

\* the call on the cache, lines 219, 225, 231 and 236
cache_call(tbl, c) ==
    CASE c.op = "store" -> store(tbl, <<c.value>>, c.replace)
      [] c.op = "remove" -> remove(tbl, c.value)
      [] c.op = "purge" -> purge(tbl)
      [] c.op = "dump" -> dump(tbl)

\* the call returns or raises: the lock is released by the with statement
SharedFinish(t, status) ==
    /\ pc' = [pc EXCEPT ![t] = "idle"]
    /\ call' = [call EXCEPT ![t] = NoCall]
    /\ _lock' = NoOwner

\* a thread calls store, remove, purge or dump and queues for the lock
SharedCall(t, op, value, replace) ==
    /\ pc[t] = "idle"
    /\ calls < MaxSharedCalls
    /\ calls' = calls + 1
    /\ pc' = [pc EXCEPT ![t] = "lock"]
    /\ call' = [call EXCEPT ![t] = [op |-> op, value |-> value,
                                     replace |-> replace, json |-> NoDoc]]
    /\ UNCHANGED <<_lock, rows, doc, _loaded, mapLast>>

\* Faulty variant: the body runs without waiting for the lock
SharedLoad_NoLock(t) ==
    /\ pc[t] = "lock"
    /\ LET ld == _load(rows, _loaded, doc)
       IN /\ rows' = ld.rows
          /\ mapLast' = [mapLast EXCEPT
                           !.op = call[t].op, !.status = ld.status,
                           !.reads = IF _loaded THEN @ ELSE @ + 1,
                           !.applied = IF _loaded THEN @ ELSE ld.rows]
          /\ IF ld.status # "ok"
             THEN SharedFinish(t, ld.status) /\ UNCHANGED _loaded
             ELSE /\ _loaded' = TRUE
                  /\ _lock' = t
                  /\ pc' = [pc EXCEPT ![t] = "cache"]
                  /\ UNCHANGED call
    /\ UNCHANGED <<calls, doc>>

\* with self._lock: self._load().  The lock is taken when it is free; the
\* document is read unless _loaded is set
SharedLoad(t) ==
    /\ pc[t] = "lock"
    /\ _lock = NoOwner
    /\ LET ld == _load(rows, _loaded, doc)
       IN /\ rows' = ld.rows
          /\ mapLast' = [mapLast EXCEPT
                           !.op = call[t].op, !.status = ld.status,
                           !.reads = IF _loaded THEN @ ELSE @ + 1,
                           !.applied = IF _loaded THEN @ ELSE ld.rows]
          /\ IF ld.status # "ok"
             THEN SharedFinish(t, ld.status) /\ UNCHANGED _loaded
             ELSE /\ _loaded' = TRUE
                  /\ _lock' = t
                  /\ pc' = [pc EXCEPT ![t] = "cache"]
                  /\ UNCHANGED call
    /\ UNCHANGED <<calls, doc>>

\* the call on the cache; dump and a call that raises end here
SharedCache(t) ==
    /\ pc[t] = "cache"
    /\ LET out == cache_call(rows, call[t])
           saves == call[t].op # "dump" /\ out.status = "ok"
       IN /\ rows' = out.rows
          /\ mapLast' = [mapLast EXCEPT
                           !.op = call[t].op, !.status = out.status,
                           !.applied = cache_call(@, call[t]).rows,
                           !.mutated = @ \/ saves]
          /\ IF saves
             THEN /\ pc' = [pc EXCEPT ![t] = "save"]
                  /\ UNCHANGED <<call, _lock>>
             ELSE SharedFinish(t, out.status)
    /\ UNCHANGED <<calls, doc, _loaded>>

\* _save, lines 190-192: the dump of the cache is made into the JSON text
SharedSave(t) ==
    /\ pc[t] = "save"
    /\ call' = [call EXCEPT ![t].json = _save(rows)]
    /\ pc' = [pc EXCEPT ![t] = "put"]
    /\ UNCHANGED <<calls, _lock, rows, doc, _loaded, mapLast>>

\* _save, line 193: backend.put writes the text, or raises
SharedPut(t, putOk) ==
    /\ pc[t] = "put"
    /\ doc' = IF putOk THEN call[t].json ELSE doc
    /\ mapLast' = [mapLast EXCEPT
                     !.op = call[t].op,
                     !.status = IF putOk THEN "ok" ELSE "PutError",
                     !.failed = @ \/ ~putOk]
    /\ SharedFinish(t, mapLast'.status)
    /\ UNCHANGED <<calls, rows, _loaded>>

---------------------------------------------------------------------------
(* utils.py: a Throttler used by several threads *)

NoWait == [start |-> NoTime, seen |-> NoTime, delta |-> 0, wakeAt |-> NoTime,
           order |-> 0, ret |-> NoTime]

\* Throttler.__init__
InitThrottler ==
    /\ _time = NoTime
    /\ _lock = NoOwner
    /\ wpc = [t \in Threads |-> "idle"]
    /\ w = [t \in Threads |-> NoWait]
    /\ order = 0
    /\ markAt = NoTime
    /\ InitMapping

\* Throttler.mark called by the user of the throttler
Mark ==
    /\ markAt = NoTime
    /\ \A t \in Threads : wpc[t] \in {"idle", "done"}
    /\ _time' = ThrottlerMark(_time, now)
    /\ markAt' = now
    /\ UNCHANGED <<now, objVars, ttlVars, restVars, mapVars, _lock, wpc, w, order>>

\* wait, lines 52-54: return at once when _time is None, else queue for the lock
WaitCall(t) ==
    /\ wpc[t] = "idle"
    /\ IF _time = NoTime
       THEN /\ wpc' = [wpc EXCEPT ![t] = "done"]
            /\ w' = [w EXCEPT ![t].start = now, ![t].ret = now]
       ELSE /\ wpc' = [wpc EXCEPT ![t] = "lock"]
            /\ w' = [w EXCEPT ![t].start = now]
    /\ UNCHANGED <<now, objVars, ttlVars, restVars, mapVars, _time, _lock, order, markAt>>

\* wait, lines 54-58: with the lock held, delta = monotonic() - _time; when
\* delta < interval the thread sleeps for delta seconds, else it returns
WaitEnter(t) ==
    /\ wpc[t] = "lock"
    /\ _lock = NoOwner
    /\ order' = order + 1
    /\ LET delta == now - _time
       IN IF delta < Interval
          THEN /\ _lock' = t
               /\ wpc' = [wpc EXCEPT ![t] = "sleep"]
               /\ w' = [w EXCEPT ![t].seen = _time, ![t].delta = delta,
                                 ![t].wakeAt = now + delta,
                                 ![t].order = order + 1]
          ELSE /\ _lock' = NoOwner
               /\ wpc' = [wpc EXCEPT ![t] = "done"]
               /\ w' = [w EXCEPT ![t].seen = _time, ![t].delta = delta,
                                 ![t].order = order + 1, ![t].ret = now]
    /\ UNCHANGED <<now, objVars, ttlVars, restVars, mapVars, _time, markAt>>

\* wait, lines 58-60: the sleep is over; mark(), release the lock, return
WaitWake(t) ==
    /\ wpc[t] = "sleep"
    /\ now >= w[t].wakeAt
    /\ _time' = ThrottlerMark(_time, now)
    /\ _lock' = NoOwner
    /\ wpc' = [wpc EXCEPT ![t] = "done"]
    /\ w' = [w EXCEPT ![t].ret = now]
    /\ UNCHANGED <<now, objVars, ttlVars, restVars, mapVars, order, markAt>>

WaitBlocked(t) ==
    \/ wpc[t] \in {"idle", "done"}
    \/ wpc[t] = "lock" /\ _lock # NoOwner
    \/ wpc[t] = "sleep" /\ now < w[t].wakeAt

\* The clock advances while every thread is idle, queued or asleep
TickWait ==
    /\ now < MaxTime
    /\ \A t \in Threads : WaitBlocked(t)
    /\ now' = now + 1
    /\ UNCHANGED <<objVars, ttlVars, restVars, waitVars, mapVars>>

---------------------------------------------------------------------------
(* Title repositories (anidb/titles.py).  The age of an entry is not part of
   the model: the primary key of the titles table is (aid, type, lang,
   value), so a table is the set of its titles. *)

\* SqliteTitleRepo._ddl: the columns of the titles table
TitleColumns == {"aid", "type", "lang", "value", "age"}

\* the rows a WHERE clause "k1 = ? AND k2 = ? ..." selects
Selected(tbl, data) == {r \in tbl : \A k \in DOMAIN data : r[k] = data[k]}

\* SqliteTitleRepo.find: the dict `data`; the language is filed under 'title'
find_data(title) ==
    LET keys == (IF title.value # <<>> THEN {"value"} ELSE {})
                \cup (IF title.lang # "" THEN {"title"} ELSE {})
                \cup (IF title.type # "" THEN {"type"} ELSE {})
                \cup (IF title.aid # "" THEN {"aid"} ELSE {})
    IN [k \in keys |-> CASE k = "value" -> title.value
                         [] k = "title" -> title.lang
                         [] k = "type" -> title.type
                         [] k = "aid" -> title.aid]

\* Faulty variant: find without the early return for an empty query
titles_find_ListsAll(tbl, title) ==
    LET data == find_data(title)
    IN IF ~(DOMAIN data \subseteq TitleColumns)
       THEN [status |-> "OperationalError", result |-> <<>>]
       ELSE [status |-> "ok", result |-> SetToSeq(Selected(tbl, data))]

\* SqliteTitleRepo.find; sqlite refuses a query that names an unknown column
titles_find(tbl, title) ==
    LET data == find_data(title)
    IN IF DOMAIN data = {} THEN [status |-> "ok", result |-> <<>>]
       ELSE IF ~(DOMAIN data \subseteq TitleColumns)
            THEN [status |-> "OperationalError", result |-> <<>>]
       ELSE [status |-> "ok", result |-> SetToSeq(Selected(tbl, data))]

\* SqliteTitleRepo.store: INSERT with ON CONFLICT REPLACE on the primary key
titles_store(tbl, title) == [status |-> "ok", rows |-> tbl \cup {title}]

\* SqliteTitleRepo.purge
titles_purge(tbl) == [status |-> "ok", rows |-> {}]

\* SqliteTitleRepo.remove: the WHERE clause; the language is compared with
\* the column 'title' here too
remove_data(title) ==
    LET keys == {"value"}
                \cup (IF title.aid # "" THEN {"aid"} ELSE {})
                \cup (IF title.lang # "" THEN {"title"} ELSE {})
                \cup (IF title.type # "" THEN {"type"} ELSE {})
    IN [k \in keys |-> CASE k = "value" -> title.value
                         [] k = "title" -> title.lang
                         [] k = "type" -> title.type
                         [] k = "aid" -> title.aid]

\* SqliteTitleRepo.remove
titles_remove(tbl, title) ==
    IF title.value = <<>> THEN [status |-> "ValueError", rows |-> tbl]
    ELSE LET data == remove_data(title)
         IN IF ~(DOMAIN data \subseteq TitleColumns)
            THEN [status |-> "OperationalError", rows |-> tbl]
            ELSE [status |-> "ok", rows |-> tbl \ Selected(tbl, data)]

\* OverlayTitleRepo.find: base.find(title) + overlay.find(title)
overlay_find(lower, over, title) ==
    LET b == titles_find(lower, title)
        o == titles_find(over, title)
    IN IF b.status # "ok" THEN b
       ELSE IF o.status # "ok" THEN o
       ELSE [status |-> "ok", result |-> b.result \o o.result]

TitleCall(op, repo, query, status, result) ==
    [op |-> op, repo |-> repo, query |-> query, status |-> status,
     result |-> result]

\* the titles of the anime-titles dump and the titles the callers use
BaseTitles == {Title(<<"K">>, "1", "en", "main"), Title(<<"k">>, "2", "en", "main")}
StoreTitles ==
    {Title(<<"K">>, "1", "en", "main"), Title(<<"K">>, "2", "ja", "main"),
     Title(<<"k">>, "1", "en", "official"), Title(<<"K">>, "1", "", "syn")}
TitleQueries ==
    {Title(v, a, l, t) : v \in {<<>>, <<"K">>}, a \in {"", "1"},
                         l \in {"", "en"}, t \in {"", "main"}}

\* find called on a SqliteTitleRepo (the upper repository) directly
SqliteTitleFind(title) ==
    LET out == titles_find(upper, title)
    IN /\ titleLast' = TitleCall("find", "sqlite", title, out.status, out.result)
       /\ UNCHANGED <<storeVars, ttlVars, waitVars, mapVars, matchVars, caseVars,
                      base, upper, _valid_until>>

\* OverlayTitleRepo.find
OverlayFind(title) ==
    LET out == overlay_find(base, upper, title)
    IN /\ titleLast' = TitleCall("find", "overlay", title, out.status, out.result)
       /\ UNCHANGED <<storeVars, ttlVars, waitVars, mapVars, matchVars, caseVars,
                      base, upper, _valid_until>>

\* Faulty variant: the overlay stores into the lower repository
OverlayStore_Lower(title) ==
    LET out == titles_store(base, title)
    IN /\ base' = out.rows
       /\ titleLast' = TitleCall("store", "overlay", title, out.status, <<>>)
       /\ UNCHANGED <<storeVars, ttlVars, waitVars, mapVars, matchVars, caseVars,
                      upper, _valid_until>>

\* OverlayTitleRepo.store
OverlayStore(title) ==
    LET out == titles_store(upper, title)
    IN /\ upper' = out.rows
       /\ titleLast' = TitleCall("store", "overlay", title, out.status, <<>>)
       /\ UNCHANGED <<storeVars, ttlVars, waitVars, mapVars, matchVars, caseVars,
                      base, _valid_until>>

\* OverlayTitleRepo.purge
OverlayPurge ==
    LET out == titles_purge(upper)
    IN /\ upper' = out.rows
       /\ titleLast' = TitleCall("purge", "overlay", Title(<<>>, "", "", ""),
                                 out.status, <<>>)
       /\ UNCHANGED <<storeVars, ttlVars, waitVars, mapVars, matchVars, caseVars,
                      base, _valid_until>>

\* OverlayTitleRepo.remove
OverlayRemove(title) ==
    LET out == titles_remove(upper, title)
    IN /\ upper' = out.rows
       /\ titleLast' = TitleCall("remove", "overlay", title, out.status, <<>>)
       /\ UNCHANGED <<storeVars, ttlVars, waitVars, mapVars, matchVars, caseVars,
                      base, _valid_until>>

---------------------------------------------------------------------------
(* PeristsedTitleRepo (anidb/titles.py): the index of the titles dump,
   reloaded when it has expired.  base is the titles table of its
   XMLTitleRepo, upper the extra titles, _lock is PeristsedTitleRepo._lock
   here, pc and call are the threads that call find.  titleLast keeps, next
   to the outcome of the last find, the index that find saw (seen) and the
   titles and the expiry time of the object of the last completed reload
   (loaded, expiry). *)

NoIndexCall ==
    [op |-> "none", query |-> Title(<<>>, "", "", ""), status |-> "ok",
     result |-> <<>>, seen |-> {}, loaded |-> {}, expiry |-> NegInf]

\* what 'anime-titles.xml' may hold, in document order
TitleDumps ==
    {<<Title(<<"k", "o">>, "1", "x-jat", "main"),
       Title(<<"A", "v">>, "1", "en", "official")>>,
     <<Title(<<"A", "v", "2">>, "2", "x-jat", "main"),
       Title(<<"k", "o">>, "2", "en", "syn")>>}

ExtraTitles == {{}, {Title(<<"k", "o">>, "9", "en", "syn")}}

IndexQueries == {Title(<<"k", "o">>, "", "", "")}

\* the with block is left: by return or by an exception
IndexFinish(t, status, result) ==
    /\ titleLast' = [titleLast EXCEPT
                        !.op = "find", !.query = call[t].query,
                        !.status = status, !.result = result, !.seen = base]
    /\ pc' = [pc EXCEPT ![t] = "idle"]
    /\ call' = [call EXCEPT ![t] = NoCall]
    /\ _lock' = NoOwner

\* a thread calls find
IndexCall(t, title) ==
    /\ pc[t] = "idle"
    /\ calls < MaxFinds
    /\ calls' = calls + 1
    /\ call' = [call EXCEPT ![t] = [op |-> "find", query |-> title,
                                     data |-> <<>>, wellformed |-> TRUE,
                                     last_fetched |-> 0, ttl |-> DefaultTtl,
                                     parsed |-> 0]]
    /\ pc' = [pc EXCEPT ![t] = "enter"]
    /\ UNCHANGED <<_lock, base, titleLast, _valid_until>>

\* Faulty variant: find does not take the lock
IndexEnter_NoLock(t) ==
    /\ pc[t] = "enter"
    /\ _lock' = t
    /\ pc' = [pc EXCEPT ![t] = IF _valid_until < now THEN "get" ELSE "find"]
    /\ UNCHANGED <<calls, call, base, titleLast, _valid_until>>

\* with self._lock, and the test of _load
IndexEnter(t) ==
    /\ pc[t] = "enter"
    /\ _lock = NoOwner
    /\ _lock' = t
    /\ pc' = [pc EXCEPT ![t] = IF _valid_until < now THEN "get" ELSE "find"]
    /\ UNCHANGED <<calls, call, base, titleLast, _valid_until>>

\* _load: self._xml_store.get('anime-titles.xml'); the store raises or
\* returns an object fetched age seconds ago
IndexGet(t, found, data, wellformed, age, ttl) ==
    /\ pc[t] = "get"
    /\ IF ~found
       THEN IndexFinish(t, "ObjectNotFound", <<>>)
       ELSE /\ call' = [call EXCEPT ![t].data = data,
                                     ![t].wellformed = wellformed,
                                     ![t].last_fetched = now - age,
                                     ![t].ttl = ttl]
            /\ pc' = [pc EXCEPT ![t] = "purge"]
            /\ UNCHANGED <<_lock, titleLast>>
    /\ UNCHANGED <<calls, base, _valid_until>>

\* _load: self._xml_repo.purge()
IndexPurge(t) ==
    /\ pc[t] = "purge"
    /\ base' = titles_purge(base).rows
    /\ pc' = [pc EXCEPT ![t] = "parse"]
    /\ UNCHANGED <<calls, call, _lock, titleLast, _valid_until>>

\* _load: parse_data hands the titles to the index one by one as the SAX
\* parser meets them; a document that is not well-formed ends the parse
\* with an exception after its first title
IndexParse(t) ==
    /\ pc[t] = "parse"
    /\ LET k == call[t].parsed
       IN IF k = Len(call[t].data)
          THEN /\ pc' = [pc EXCEPT ![t] = "valid"]
               /\ UNCHANGED <<call, _lock, base, titleLast>>
          ELSE IF k = 1 /\ ~call[t].wellformed
          THEN IndexFinish(t, "SAXParseException", <<>>) /\ UNCHANGED base
          ELSE /\ base' = titles_store(base, call[t].data[k + 1]).rows
               /\ call' = [call EXCEPT ![t].parsed = k + 1]
               /\ UNCHANGED <<pc, _lock, titleLast>>
    /\ UNCHANGED <<calls, _valid_until>>

\* Faulty variant: the index is valid until the time its object was fetched
IndexValid_NoTtl(t) ==
    /\ pc[t] = "valid"
    /\ _valid_until' = call[t].last_fetched
    /\ titleLast' = [titleLast EXCEPT !.loaded = Range(call[t].data),
                                      !.expiry = expiry_time(call[t])]
    /\ pc' = [pc EXCEPT ![t] = "find"]
    /\ UNCHANGED <<calls, call, _lock, base>>

\* _load: self._valid_until = obj.expiry_time()
IndexValid(t) ==
    /\ pc[t] = "valid"
    /\ _valid_until' = expiry_time(call[t])
    /\ titleLast' = [titleLast EXCEPT !.loaded = Range(call[t].data),
                                      !.expiry = expiry_time(call[t])]
    /\ pc' = [pc EXCEPT ![t] = "find"]
    /\ UNCHANGED <<calls, call, _lock, base>>

\* find: return self._repo.find(title)
IndexFind(t) ==
    /\ pc[t] = "find"
    /\ LET out == overlay_find(base, upper, call[t].query)
       IN IndexFinish(t, out.status, out.result)
    /\ UNCHANGED <<calls, base, _valid_until>>

\* time passes
TickIndex ==
    /\ now < MaxTime
    /\ now' = now + 1
    /\ UNCHANGED <<calls, call, pc, _lock, base, titleLast, _valid_until>>

---------------------------------------------------------------------------
(* AnidbTitleMatcher (mapping/title_matching.py) over an overlay of SQLite
   title repositories, the TMDB title repository and the SQLite mapping
   repository *)

\* str.strip and str.lower on the characters of the model
IsSpace(c) == c = " "

RECURSIVE lstrip(_)
lstrip(str) == IF str # <<>> /\ IsSpace(Head(str)) THEN lstrip(Tail(str)) ELSE str

RECURSIVE rstrip(_)
rstrip(str) ==
    IF str # <<>> /\ IsSpace(str[Len(str)])
    THEN rstrip(SubSeq(str, 1, Len(str) - 1))
    ELSE str

strip(str) == rstrip(lstrip(str))

lower_char(c) == CASE c = "A" -> "a" [] c = "K" -> "k" [] OTHER -> c

lower(str) == [i \in DOMAIN str |-> lower_char(str[i])]

\* TmdbApiTitleRepo.find: a search needs a value; the answer of the API
\* depends on the value alone
tmdb_find(api, title) ==
    IF title.value = <<>> THEN [status |-> "ValueError", result |-> <<>>]
    ELSE [status |-> "ok", result |-> api[title.value]]

_result(pri, sec, match, from_load) ==
    [anidb |-> pri, tmdb |-> sec, is_from_match |-> match,
     is_from_storage |-> from_load]

\* Faulty variant: the stored pairs are flagged as matches too
_find_stored_match_Match(maps, entry) ==
    LET r == resolve_tmdb(maps, AnimeMapping(entry.aid, ""))
        l == SetToSeq(r.result)
    IN IF r.status # "ok" THEN [status |-> r.status, result |-> <<>>]
       ELSE [status |-> "ok",
             result |-> [i \in DOMAIN l |->
                            _result(entry, Title(<<>>, l[i].tmdb, "", ""), TRUE, TRUE)]]

\* _find_stored_match: one result for each stored pair of the entry's aid
_find_stored_match(maps, entry) ==
    LET r == resolve_tmdb(maps, AnimeMapping(entry.aid, ""))
        l == SetToSeq(r.result)
    IN IF r.status # "ok" THEN [status |-> r.status, result |-> <<>>]
       ELSE [status |-> "ok",
             result |-> [i \in DOMAIN l |->
                            _result(entry, Title(<<>>, l[i].tmdb, "", ""), FALSE, TRUE)]]

\* Faulty variant: titles that trim to nothing count as equal
_find_perfect_title_match_Loose(anidb_titles, tmdb_titles) ==
    LET hits == {p \in (DOMAIN anidb_titles) \X (DOMAIN tmdb_titles) :
                    lower(strip(anidb_titles[p[1]].value))
                        = lower(strip(tmdb_titles[p[2]].value))}
    IN IF hits = {} THEN [found |-> FALSE]
       ELSE LET p == CHOOSE h \in hits : \A g \in hits :
                        h[1] < g[1] \/ (h[1] = g[1] /\ h[2] <= g[2])
            IN [found |-> TRUE,
                result |-> _result(anidb_titles[p[1]], tmdb_titles[p[2]], TRUE, FALSE)]

\* _find_perfect_title_match: the first pair of the cartesian product with
\* equal, non-empty values after strip().lower()
_find_perfect_title_match(anidb_titles, tmdb_titles) ==
    LET hits == {p \in (DOMAIN anidb_titles) \X (DOMAIN tmdb_titles) :
                    /\ lower(strip(anidb_titles[p[1]].value))
                         = lower(strip(tmdb_titles[p[2]].value))
                    /\ lower(strip(anidb_titles[p[1]].value)) # <<>>}
    IN IF hits = {} THEN [found |-> FALSE]
       ELSE LET p == CHOOSE h \in hits : \A g \in hits :
                        h[1] < g[1] \/ (h[1] = g[1] /\ h[2] <= g[2])
            IN [found |-> TRUE,
                result |-> _result(anidb_titles[p[1]], tmdb_titles[p[2]], TRUE, FALSE)]

\* _index_titles: the aids in the order of their first title ...
RECURSIVE index_keys(_)
index_keys(titles) ==
    IF titles = <<>> THEN <<>>
    ELSE <<Head(titles).aid>>
         \o SelectSeq(index_keys(Tail(titles)), LAMBDA a : a # Head(titles).aid)

\* ... and the titles filed under each aid
_index_titles(titles) ==
    LET keys == index_keys(titles)
    IN [i \in DOMAIN keys |->
           [aid |-> keys[i],
            titles |-> SelectSeq(titles, LAMBDA t : t.aid = keys[i])]]

_get_main_title(titles) ==
    LET main == SelectSeq(titles, LAMBDA t : t.type = "main")
        en == SelectSeq(titles, LAMBDA t : t.type = "official" /\ t.lang = "en")
        ja == SelectSeq(titles, LAMBDA t : t.type = "official" /\ t.lang = "ja")
    IN IF main # <<>> THEN [status |-> "ok", title |-> main[1]]
       ELSE IF en # <<>> THEN [status |-> "ok", title |-> en[1]]
       ELSE IF ja # <<>> THEN [status |-> "ok", title |-> ja[1]]
       ELSE IF titles # <<>> THEN [status |-> "ok", title |-> titles[1]]
       ELSE [status |-> "ValueError"]

\* Faulty variant: the main titles are tried before the English ones
_get_mapping_titles_MainFirst(titles) ==
    SelectSeq(titles, LAMBDA t : t.type = "main")
    \o SelectSeq(titles, LAMBDA t : t.type = "official" /\ t.lang = "en")
    \o SelectSeq(titles, LAMBDA t : t.type = "official" /\ t.lang = "ja")

_get_mapping_titles(titles) ==
    SelectSeq(titles, LAMBDA t : t.type = "official" /\ t.lang = "en")
    \o SelectSeq(titles, LAMBDA t : t.type = "main")
    \o SelectSeq(titles, LAMBDA t : t.type = "official" /\ t.lang = "ja")

\* a search sent to TMDB, and the aid it was made for
TmdbCall(query, aid) == [value |-> query.value, lang |-> query.lang, aid |-> aid]

\* the loop of the faulty variant of _find_tmdb_match below
RECURSIVE tmdb_attempts_NoStop(_, _, _, _, _)
tmdb_attempts_NoStop(api, anidb_titles, lang, cands, acc) ==
    IF cands = <<>> THEN acc
    ELSE LET anidb_title == Head(cands)
             tmdb_query == Title(anidb_title.value, "", lang, "")
             found == tmdb_find(api, tmdb_query)
             sent == Append(acc.calls, TmdbCall(tmdb_query, anidb_title.aid))
             perfect == _find_perfect_title_match(anidb_titles, found.result)
         IN IF found.status # "ok"
            THEN [status |-> found.status, result |-> <<>>, calls |-> sent]
            ELSE tmdb_attempts_NoStop(api, anidb_titles, lang, Tail(cands),
                    [status |-> "ok",
                     result |-> IF perfect.found
                                THEN Append(acc.result, perfect.result)
                                ELSE acc.result
                                     \o [i \in DOMAIN found.result |->
                                           _result(anidb_title, found.result[i],
                                                   FALSE, FALSE)],
                     calls |-> sent])

\* _find_tmdb_match: the loop over the titles to try
RECURSIVE tmdb_attempts(_, _, _, _, _)
tmdb_attempts(api, anidb_titles, lang, cands, acc) ==
    IF cands = <<>> THEN acc
    ELSE LET anidb_title == Head(cands)
             tmdb_query == Title(anidb_title.value, "", lang, "")
             found == tmdb_find(api, tmdb_query)
             sent == Append(acc.calls, TmdbCall(tmdb_query, anidb_title.aid))
             perfect == _find_perfect_title_match(anidb_titles, found.result)
         IN IF found.status # "ok"
            THEN [status |-> found.status, result |-> <<>>, calls |-> sent]
            ELSE IF perfect.found
            THEN [status |-> "ok", result |-> <<perfect.result>>, calls |-> sent]
            ELSE tmdb_attempts(api, anidb_titles, lang, Tail(cands),
                    [status |-> "ok",
                     result |-> acc.result
                                \o [i \in DOMAIN found.result |->
                                      _result(anidb_title, found.result[i],
                                              FALSE, FALSE)],
                     calls |-> sent])

\* Faulty variant: every title is tried, whatever the earlier attempts found
_find_tmdb_match_NoStop(api, anidb_titles, lang) ==
    tmdb_attempts_NoStop(api, anidb_titles, lang, _get_mapping_titles(anidb_titles),
                         [status |-> "ok", result |-> <<>>, calls |-> <<>>])

_find_tmdb_match(api, anidb_titles, lang) ==
    tmdb_attempts(api, anidb_titles, lang, _get_mapping_titles(anidb_titles),
                  [status |-> "ok", result |-> <<>>, calls |-> <<>>])

\* match_title, first loop: the stored matches of each aid's main title
RECURSIVE stored_matches(_, _)
stored_matches(maps, idx) ==
    IF idx = <<>> THEN [status |-> "ok", result |-> <<>>]
    ELSE LET main == _get_main_title(Head(idx).titles)
             first == IF main.status # "ok"
                      THEN [status |-> main.status, result |-> <<>>]
                      ELSE _find_stored_match(maps, main.title)
             rest == stored_matches(maps, Tail(idx))
         IN IF first.status # "ok" THEN first
            ELSE IF rest.status # "ok" THEN rest
            ELSE [status |-> "ok", result |-> first.result \o rest.result]

\* Faulty variant: the aids with a stored mapping stay in the work set
unmatched_All(idx, result) == idx

\* match_title, second loop: the aids of the results are popped from the index
unmatched(idx, result) ==
    SelectSeq(idx, LAMBDA g : g.aid \notin {result[i].anidb.aid : i \in DOMAIN result})

\* match_title, third loop: one anime after another
RECURSIVE match_each(_, _, _, _, _)
match_each(lower_tbl, upper_tbl, api, lang, idx) ==
    IF idx = <<>> THEN [status |-> "ok", result |-> <<>>, calls |-> <<>>]
    ELSE LET anidb_titles == overlay_find(lower_tbl, upper_tbl,
                                          Title(<<>>, Head(idx).aid, "", ""))
             first == IF anidb_titles.status # "ok"
                      THEN [status |-> anidb_titles.status, result |-> <<>>,
                            calls |-> <<>>]
                      ELSE _find_tmdb_match(api, anidb_titles.result, lang)
             rest == match_each(lower_tbl, upper_tbl, api, lang, Tail(idx))
         IN IF first.status # "ok" THEN first
            ELSE IF rest.status # "ok"
            THEN [status |-> rest.status, result |-> <<>>,
                  calls |-> first.calls \o rest.calls]
            ELSE [status |-> "ok", result |-> first.result \o rest.result,
                  calls |-> first.calls \o rest.calls]

match_title(lower_tbl, upper_tbl, maps, api, title) ==
    LET lang == title.lang
        anidb_titles == overlay_find(lower_tbl, upper_tbl, title)
        anidb_titles_idx == _index_titles(anidb_titles.result)
        stored == stored_matches(maps, anidb_titles_idx)
        rest == unmatched(anidb_titles_idx, stored.result)
        matched == match_each(lower_tbl, upper_tbl, api, lang, rest)
    IN IF anidb_titles.status # "ok"
       THEN [status |-> anidb_titles.status, result |-> <<>>, calls |-> <<>>]
       ELSE IF stored.status # "ok"
       THEN [status |-> stored.status, result |-> <<>>, calls |-> <<>>]
       ELSE IF rest = <<>>
       THEN [status |-> "ok", result |-> stored.result, calls |-> <<>>]
       ELSE IF matched.status # "ok"
       THEN [status |-> matched.status, result |-> <<>>, calls |-> matched.calls]
       ELSE [status |-> "ok", result |-> stored.result \o matched.result,
             calls |-> matched.calls]

\* the titles of the dump: anime 1 with a main, an English and a Japanese
\* title, anime 2 that shares a synonym with it, anime 3 with a blank title
DumpTitles ==
    {Title(<<"k", "o">>, "1", "x-jat", "main"),
     Title(<<"A", "v">>, "1", "en", "official"),
     Title(<<"j">>, "1", "ja", "official"),
     Title(<<"k", "o">>, "2", "en", "syn"),
     Title(<<"A", "v", "2">>, "2", "x-jat", "main"),
     Title(<<" ">>, "3", "x-jat", "main")}

MatchTables ==
    {DumpTitles,
     DumpTitles \ {Title(<<"A", "v">>, "1", "en", "official")},
     DumpTitles \ {Title(<<"k", "o">>, "2", "en", "syn")}}

\* the stored mappings: none, one anime with one season, both animes
StoredMappings ==
    {{}, {<<"1", "T1S1">>}, {<<"1", "T1S1">>, <<"1", "T1S2">>, <<"2", "T2S1">>}}

TmdbValues == {t.value : t \in DumpTitles}

\* what TMDB answers: a search for a blank value finds a season without a
\* name; the other answers vary
TmdbAnswer(av, ko, av2) ==
    [v \in TmdbValues |->
        CASE v = <<"A", "v">> -> av
          [] v = <<"k", "o">> -> ko
          [] v = <<"A", "v", "2">> -> av2
          [] v = <<" ">> -> <<Title(<<>>, "T5S1", "", "")>>
          [] OTHER -> <<>>]

TmdbAnswers ==
    {TmdbAnswer(<<Title(<<"A", "v", "2">>, "T1S2", "", ""),
                  Title(<<"a", "v", " ">>, "T1S1", "", "")>>,
                <<>>,
                <<Title(<<"A", "v", "2">>, "T1S2", "", "")>>),
     TmdbAnswer(<<Title(<<"A", "v", "2">>, "T1S2", "", "")>>,
                <<Title(<<" ", "K", "o">>, "T1S1", "", "")>>,
                <<>>),
     TmdbAnswer(<<Title(<<"A", "v", "2">>, "T1S2", "", "")>>,
                <<Title(<<"k">>, "T7S1", "", "")>>,
                <<Title(<<"A", "v">>, "T1S1", "", "")>>)}

MatchQueries ==
    {Title(v, a, l, "") : v \in {<<"k", "o">>, <<"A", "v">>, <<" ">>},
                          a \in {"", "1"}, l \in {"", "en"}}

\* AnidbTitleMatcher.match_title
MatchTitle(title) ==
    LET out == match_title(base, upper, rows, _tmdb_repo, title)
    IN /\ matchLast' = [op |-> "match", query |-> title, status |-> out.status,
                        result |-> out.result, calls |-> out.calls]
       /\ UNCHANGED <<storeVars, ttlVars, waitVars, mapVars, titleVars, caseVars,
                      _tmdb_repo>>

\* AnidbTitleMatcher._find_tmdb_match on the titles of one anime, the step
\* of match_title's last loop
FindTmdbMatch(aid, lang) ==
    LET anidb_titles == SetToSeq({r \in base \cup upper : r.aid = aid})
        out == _find_tmdb_match(_tmdb_repo, anidb_titles, lang)
    IN /\ matchLast' = [op |-> "attempts", query |-> Title(<<>>, aid, lang, ""),
                        status |-> out.status, result |-> out.result,
                        calls |-> out.calls]
       /\ UNCHANGED <<storeVars, ttlVars, waitVars, mapVars, titleVars, caseVars,
                      _tmdb_repo>>

---------------------------------------------------------------------------
(* The identifier codec (model.py).  A string is a sequence of characters. *)

NL == "\n"
DigitChars == <<"0", "1", "2", "3", "4", "5", "6", "7", "8", "9">>
IsDigit(c) == c \in Range(DigitChars)

\* str.isdecimal
isdecimal(str) == str # <<>> /\ \A i \in DOMAIN str : IsDigit(str[i])

\* str.upper on the letters of the model
upper_char(c) == CASE c = "a" -> "A" [] c = "t" -> "T" [] c = "s" -> "S" [] OTHER -> c

\* int(str) of a decimal string
RECURSIVE int(_)
int(str) ==
    IF str = <<>> THEN 0
    ELSE 10 * int(SubSeq(str, 1, Len(str) - 1))
         + ((CHOOSE i \in DOMAIN DigitChars : DigitChars[i] = str[Len(str)]) - 1)

\* str(int): the decimal digits of a natural number
RECURSIVE digits(_)
digits(n) ==
    IF n < 10 THEN <<DigitChars[n + 1]>>
    ELSE digits(n \div 10) \o <<DigitChars[(n % 10) + 1]>>

\* re.match with a pattern that ends in $: the end of the string, or the
\* position before a newline that ends the string
Dollar(str) ==
    IF str # <<>> /\ str[Len(str)] = NL
    THEN {str, SubSeq(str, 1, Len(str) - 1)}
    ELSE {str}

\* the positions at which str can be cut into T<digits> and S<digits>; with
\* ignore_case the letters may be lower-case (re.I)
SeasonCuts(str, ignore_case) ==
    {k \in DOMAIN str :
        /\ k > 1
        /\ IF ignore_case
           THEN upper_char(str[1]) = "T" /\ upper_char(str[k]) = "S"
           ELSE str[1] = "T" /\ str[k] = "S"
        /\ isdecimal(SubSeq(str, 2, k - 1))
        /\ isdecimal(SubSeq(str, k + 1, Len(str)))}

\* TmdbSeasonId.__init__ from a tuple of two ints
TmdbSeasonIdOf(tvshow, season) ==
    [kind |-> "TmdbSeasonId", tvshow |-> tvshow, season |-> season]

\* TmdbSeasonId.__init__ from a string: ^T([0-9]+)S([0-9]+)$
TmdbSeasonId(value) ==
    LET m == {q \in Dollar(value) : SeasonCuts(q, FALSE) # {}}
    IN IF m = {} THEN [status |-> "ValueError"]
       ELSE LET q == CHOOSE x \in m : TRUE
                k == CHOOSE x \in SeasonCuts(q, FALSE) : TRUE
            IN [status |-> "ok",
                id |-> TmdbSeasonIdOf(int(SubSeq(q, 2, k - 1)),
                                      int(SubSeq(q, k + 1, Len(q))))]

\* AnidbId.__init__ from an int
AnidbIdOf(anime) == [kind |-> "AnidbId", anime |-> anime]

\* AnidbId.__init__ from a string
AnidbId(value) ==
    IF value = <<>> THEN [status |-> "ValueError"]
    ELSE IF upper_char(value[1]) = "A" /\ isdecimal(Tail(value))
    THEN [status |-> "ok", id |-> AnidbIdOf(int(Tail(value)))]
    ELSE IF isdecimal(value)
    THEN [status |-> "ok", id |-> AnidbIdOf(int(value))]
    ELSE [status |-> "ValueError"]

\* TmdbId.__init__ from a string: decimal, or ^T([0-9]+)(?:S[0-9]+)?$ with re.I
TmdbId(value) ==
    LET show == {q \in Dollar(value) :
                    Len(q) > 1 /\ upper_char(q[1]) = "T" /\ isdecimal(Tail(q))}
        season == {q \in Dollar(value) : SeasonCuts(q, TRUE) # {}}
    IN IF value = <<>> THEN [status |-> "ValueError"]
       ELSE IF isdecimal(value)
       THEN [status |-> "ok", id |-> [kind |-> "TmdbId", show |-> int(value)]]
       ELSE IF show # {}
       THEN [status |-> "ok",
             id |-> [kind |-> "TmdbId", show |-> int(Tail(CHOOSE q \in show : TRUE))]]
       ELSE IF season # {}
       THEN LET q == CHOOSE x \in season : TRUE
                k == CHOOSE x \in SeasonCuts(q, TRUE) : TRUE
            IN [status |-> "ok",
                id |-> [kind |-> "TmdbId", show |-> int(SubSeq(q, 2, k - 1))]]
       ELSE [status |-> "ValueError"]

\* AnimeMappingId(anidb=..., tmdb=...)
AnimeMappingIdOf(anidb, tmdb_season) ==
    [kind |-> "AnimeMappingId", anidb |-> anidb, tmdb |-> tmdb_season]

\* __str__ of the four identifier classes
id_str(id) ==
    CASE id.kind = "AnidbId" -> <<"A">> \o digits(id.anime)
      [] id.kind = "TmdbId" -> <<"T">> \o digits(id.show)
      [] id.kind = "TmdbSeasonId" ->
            <<"T">> \o digits(id.tvshow) \o <<"S">> \o digits(id.season)
      [] id.kind = "AnimeMappingId" ->
            <<"A">> \o digits(id.anidb.anime) \o <<"-">>
            \o <<"T">> \o digits(id.tmdb.tvshow) \o <<"S">> \o digits(id.tmdb.season)

\* str.split('-')
RECURSIVE split(_)
split(str) ==
    IF \A i \in DOMAIN str : str[i] # "-" THEN <<str>>
    ELSE LET d == CHOOSE i \in DOMAIN str :
                     str[i] = "-" /\ \A j \in 1..(i - 1) : str[j] # "-"
         IN <<SubSeq(str, 1, d - 1)>> \o split(SubSeq(str, d + 1, Len(str)))

\* AnimeMappingId.parse: parts[1] of a string without '-' raises IndexError,
\* which the except clause (KeyError) lets through
AnimeMappingId_parse(value) ==
    LET parts == split(value)
        anidb == AnidbId(parts[1])
        tmdb_season == TmdbSeasonId(parts[2])
    IN IF anidb.status # "ok" THEN [status |-> anidb.status]
       ELSE IF Len(parts) < 2 THEN [status |-> "IndexError"]
       ELSE IF tmdb_season.status # "ok" THEN [status |-> tmdb_season.status]
       ELSE [status |-> "ok", id |-> AnimeMappingIdOf(anidb.id, tmdb_season.id)]

\* the four patterns of parse_anime_id
re_anidb(value) ==
    \E q \in Dollar(value) : Len(q) > 1 /\ q[1] = "A" /\ isdecimal(Tail(q))
re_tmdb(value) ==
    \E q \in Dollar(value) : Len(q) > 1 /\ q[1] = "T" /\ isdecimal(Tail(q))
re_season(value) == \E q \in Dollar(value) : SeasonCuts(q, FALSE) # {}
re_mapping(value) ==
    {<<q, d>> \in Dollar(value) \X DOMAIN value :
        /\ d <= Len(q)
        /\ q[d] = "-"
        /\ d > 2 /\ q[1] = "A" /\ isdecimal(SubSeq(q, 2, d - 1))
        /\ SeasonCuts(SubSeq(q, d + 1, Len(q)), FALSE) # {}}

\* Faulty variant: a season id is handed to TmdbId
parse_anime_id_ShowOnly(value) ==
    IF re_anidb(value) THEN AnidbId(value)
    ELSE IF re_tmdb(value) THEN TmdbId(value)
    ELSE IF re_season(value) THEN TmdbId(value)
    ELSE IF re_mapping(value) # {}
    THEN LET m == CHOOSE x \in re_mapping(value) : TRUE
             rest == SubSeq(m[1], m[2] + 1, Len(m[1]))
             k == CHOOSE x \in SeasonCuts(rest, FALSE) : TRUE
         IN [status |-> "ok",
             id |-> AnimeMappingIdOf(
                       AnidbIdOf(int(SubSeq(m[1], 2, m[2] - 1))),
                       TmdbSeasonIdOf(int(SubSeq(rest, 2, k - 1)),
                                      int(SubSeq(rest, k + 1, Len(rest)))))]
    ELSE [status |-> "ValueError"]

parse_anime_id(value) ==
    IF re_anidb(value) THEN AnidbId(value)
    ELSE IF re_tmdb(value) THEN TmdbId(value)
    ELSE IF re_season(value) THEN TmdbSeasonId(value)
    ELSE IF re_mapping(value) # {}
    THEN LET m == CHOOSE x \in re_mapping(value) : TRUE
             rest == SubSeq(m[1], m[2] + 1, Len(m[1]))
             k == CHOOSE x \in SeasonCuts(rest, FALSE) : TRUE
         IN [status |-> "ok",
             id |-> AnimeMappingIdOf(
                       AnidbIdOf(int(SubSeq(m[1], 2, m[2] - 1))),
                       TmdbSeasonIdOf(int(SubSeq(rest, 2, k - 1)),
                                      int(SubSeq(rest, k + 1, Len(rest)))))]
    ELSE [status |-> "ValueError"]

\* the identifiers in print, for the numbers up to MaxId
PrintedIds ==
    {id_str(AnidbIdOf(n)) : n \in 0..MaxId}
    \cup {id_str([kind |-> "TmdbId", show |-> n]) : n \in 0..MaxId}
    \cup {id_str(TmdbSeasonIdOf(n, k)) : n \in 0..MaxId, k \in 0..MaxId}
    \cup {id_str(AnimeMappingIdOf(AnidbIdOf(n), TmdbSeasonIdOf(m, k))) :
             n \in {1, MaxId}, m \in 0..MaxId, k \in 0..MaxId}

\* the characters a caller may get wrong
IdChars == {"A", "T", "S", "a", "t", "-", "0", "1", "x", NL}

\* a string with one character replaced, removed or added
Edits(str) ==
    {[str EXCEPT ![i] = c] : i \in DOMAIN str, c \in IdChars}
    \cup {SubSeq(str, 1, i - 1) \o SubSeq(str, i + 1, Len(str)) : i \in DOMAIN str}
    \cup {SubSeq(str, 1, i) \o <<c>> \o SubSeq(str, i + 1, Len(str)) :
             i \in 0..Len(str), c \in IdChars}

\* what a caller may hand to the codec
IdStrings ==
    PrintedIds
    \cup {<<>>}
    \cup UNION {Edits(str) : str \in {<<"A", "1">>, <<"T", "1">>,
                                      <<"T", "1", "S", "2">>,
                                      <<"A", "1", "-", "T", "2", "S", "3">>,
                                      <<"A", "1", "-", "T", "2", "S", "3", "-", "x">>}}

\* a string is handed to parse_anime_id and to AnimeMappingId.parse, and
\* what parses is printed again
ParseId ==
    /\ idCase.op = "input"
    /\ LET any == parse_anime_id(idCase.value)
           mapping == AnimeMappingId_parse(idCase.value)
       IN idCase' = [op |-> "parsed", value |-> idCase.value,
                     status |-> any.status,
                     kind |-> IF any.status = "ok" THEN any.id.kind ELSE "none",
                     printed |-> IF any.status = "ok" THEN id_str(any.id) ELSE <<>>,
                     mapping_status |-> mapping.status,
                     mapping_printed |-> IF mapping.status = "ok"
                                         THEN id_str(mapping.id) ELSE <<>>]
    /\ UNCHANGED <<storeVars, ttlVars, waitVars, mapVars, titleVars, matchVars,
                   animeCase>>

---------------------------------------------------------------------------
(* combine_anime (model.py).  An anime carries its id, uniqueids, genres,
   images, ratings and seasons; a season its number, images and ratings. *)

\* an image: where it comes from, and of which season it is
Image(source, name) == [source |-> source, name |-> name]

\* model.Episode: its number and its summary (here the site it came from)
Episode(number, summary) == [number |-> number, summary |-> summary]

Season(number, episodes, images, ratings) ==
    [number |-> number, episodes |-> episodes, images |-> images,
     ratings |-> ratings]

\* Anime.find_season_by_number: the first season with the number, or None
find_season_by_number(seasons, s_no) ==
    LET hits == {i \in DOMAIN seasons : seasons[i].number = s_no}
    IN IF hits = {} THEN [found |-> FALSE]
       ELSE [found |-> TRUE,
             season |-> seasons[CHOOSE i \in hits : \A j \in hits : i <= j]]

\* Anime.validate_sorted_seasons: sorted(value, key=number), a stable sort
RECURSIVE validate_sorted_seasons(_)
validate_sorted_seasons(value) ==
    IF value = <<>> THEN <<>>
    ELSE LET m == CHOOSE i \in DOMAIN value :
                     /\ \A j \in DOMAIN value : value[i].number <= value[j].number
                     /\ \A j \in 1..(i - 1) : value[j].number # value[i].number
         IN <<value[m]>>
            \o validate_sorted_seasons(SubSeq(value, 1, m - 1)
                                       \o SubSeq(value, m + 1, Len(value)))

\* Faulty variant: the episodes of the tmdb season are taken over as well
merge_season_WithEpisodes(anidb_s, tmdb_s) ==
    Season(anidb_s.number, anidb_s.episodes \o tmdb_s.episodes,
           anidb_s.images \o tmdb_s.images, anidb_s.ratings \o tmdb_s.ratings)

\* combine_anime, the body of the loop: images and ratings of the tmdb
\* season are appended to the copy of the anidb season, nothing else is
merge_season(anidb_s, tmdb_s) ==
    Season(anidb_s.number, anidb_s.episodes,
           anidb_s.images \o tmdb_s.images, anidb_s.ratings \o tmdb_s.ratings)

\* combine_anime, the loop over season_map: a pair is merged only if both
\* animes have the season
RECURSIVE new_seasons(_, _, _)
new_seasons(anidb_seasons, tmdb_seasons, season_map) ==
    IF season_map = <<>> THEN <<>>
    ELSE LET anidb_s == find_season_by_number(anidb_seasons, Head(season_map)[1])
             tmdb_s == find_season_by_number(tmdb_seasons, Head(season_map)[2])
             rest == new_seasons(anidb_seasons, tmdb_seasons, Tail(season_map))
         IN IF anidb_s.found /\ tmdb_s.found
            THEN <<merge_season(anidb_s.season, tmdb_s.season)>> \o rest
            ELSE rest

combine_anime(anidb_anime, tmdb_anime, tmdb_season) ==
    LET anidb_id == AnidbId(anidb_anime.id)
        tmdb_show == TmdbId(tmdb_anime.id)
        season_map == <<<<0, 0>>, <<1, tmdb_season>>>>
    IN IF anidb_id.status # "ok" THEN [status |-> anidb_id.status]
       ELSE IF tmdb_show.status # "ok" THEN [status |-> tmdb_show.status]
       ELSE [status |-> "ok",
             anime |->
               [id |-> id_str(AnimeMappingIdOf(
                                 anidb_id.id,
                                 TmdbSeasonIdOf(tmdb_show.id.show, tmdb_season))),
                uniqueids |-> [k \in DOMAIN anidb_anime.uniqueids
                                     \cup DOMAIN tmdb_anime.uniqueids |->
                                  IF k \in DOMAIN tmdb_anime.uniqueids
                                  THEN tmdb_anime.uniqueids[k]
                                  ELSE anidb_anime.uniqueids[k]],
                images |-> anidb_anime.images \o tmdb_anime.images,
                ratings |-> anidb_anime.ratings \o tmdb_anime.ratings,
                genres |-> tmdb_anime.genres,
                seasons |-> validate_sorted_seasons(
                               new_seasons(anidb_anime.seasons,
                                           tmdb_anime.seasons, season_map))]]

\* AnidbAnimeParser.parse_anime: an anidb anime has the specials as season 0
\* and the episodes as season 1
AnidbAnimes ==
    {[id |-> id, uniqueids |-> [anidb |-> "1"], images |-> <<Image("anidb", 1)>>,
      ratings |-> <<"anidb">>, genres |-> <<>>,
      seasons |-> <<Season(0, <<Episode(1, "anidb")>>, <<>>, <<>>),
                    Season(1, <<Episode(1, "anidb"), Episode(2, "anidb")>>,
                           <<Image("anidb", 1)>>, <<"anidb">>)>>] :
        id \in {<<"A", "1">>, <<"1">>, <<"x">>}}

\* TmdbShowParser: a tmdb anime has the seasons the TMDB show lists, in
\* ascending order
SeasonList(numbers) ==
    validate_sorted_seasons(
        [i \in 1..Cardinality(numbers) |->
            LET n == SetToSeq(numbers)[i]
            IN Season(n, <<Episode(1, "tmdb")>>, <<Image("tmdb", n)>>,
                      <<"tmdb">>)])

TmdbAnimes ==
    {[id |-> <<"T", "2">>, uniqueids |-> [tmdb |-> "2"],
      images |-> <<Image("tmdb", 1)>>, ratings |-> <<"tmdb">>, genres |-> <<"g">>,
      seasons |-> SeasonList(numbers)] :
        numbers \in (SUBSET (0..MaxSeason)) \ {{}}}

\* Season.validate_sorted_episodes: sorted(value, key=number), the same
\* stable sort as the one of the seasons
validate_sorted_episodes(value) == validate_sorted_seasons(value)

\* AnimeXMLParser.parse_epno: the type, and the number read from the text
\* (from the text without its first character unless the type is 1);
\* int() raises ValueError for anything but digits
parse_epno(el) ==
    LET text == IF el.type = 1 THEN strip(el.text)
                ELSE SubSeq(strip(el.text), 2, Len(strip(el.text)))
    IN IF isdecimal(text)
       THEN [status |-> "ok", typ |-> el.type, epno |-> int(text)]
       ELSE [status |-> "ValueError"]

\* Faulty variant: every special kind of episode passes in specials mode
parse_episode_AnySpecial(el, specials) ==
    LET no == parse_epno(el)
    IN IF no.status # "ok" THEN [status |-> no.status, found |-> FALSE]
       ELSE IF (~specials /\ no.typ # 1) \/ (specials /\ no.typ = 1)
       THEN [status |-> "ok", found |-> FALSE]
       ELSE [status |-> "ok", found |-> TRUE,
             episode |-> Episode(no.epno, el.summary)]

\* AnimeXMLParser.parse_episode: None unless the type is the one of the mode
parse_episode(el, specials) ==
    LET no == parse_epno(el)
    IN IF no.status # "ok" THEN [status |-> no.status, found |-> FALSE]
       ELSE IF (~specials /\ no.typ # 1) \/ (specials /\ no.typ # 2)
       THEN [status |-> "ok", found |-> FALSE]
       ELSE [status |-> "ok", found |-> TRUE,
             episode |-> Episode(no.epno, el.summary)]

\* the two list comprehensions of _parse_season and _parse_specials: the
\* episodes of the mode in document order, then sorted by the Season
parse_episodes(els, specials) ==
    LET outs == [i \in DOMAIN els |-> parse_episode(els[i], specials)]
        kept == SelectSeq(outs, LAMBDA o : o.found)
    IN IF \E i \in DOMAIN outs : outs[i].status # "ok"
       THEN [status |-> "ValueError"]
       ELSE [status |-> "ok",
             eps |-> validate_sorted_episodes(
                         [i \in DOMAIN kept |-> kept[i].episode])]

\* AnimeXMLParser.parse_anime, the seasons: the specials as season 0 and
\* the regular episodes as season 1, which takes the images of the anime
parse_anime_seasons(els, images) ==
    LET first == parse_episodes(els, FALSE)
        specials == parse_episodes(els, TRUE)
    IN IF first.status # "ok" THEN [status |-> first.status]
       ELSE [status |-> "ok",
             seasons |-> validate_sorted_seasons(
                            <<Season(0, specials.eps, <<>>, <<>>),
                              Season(1, first.eps, images, <<>>)>>)]

\* <episode> elements as AniDB sends them: regular numbers (padded or
\* not), specials, credits, trailers, parodies and others
EpnoElements ==
    {[type |-> 1, text |-> <<"1">>], [type |-> 1, text |-> <<"0", "2">>],
     [type |-> 1, text |-> <<" ", "3">>], [type |-> 1, text |-> <<"1", "0">>],
     [type |-> 2, text |-> <<"S", "1">>], [type |-> 2, text |-> <<"S", "0", "2">>],
     [type |-> 3, text |-> <<"C", "1">>], [type |-> 4, text |-> <<"T", "1">>],
     [type |-> 5, text |-> <<"P", "1">>], [type |-> 6, text |-> <<"O", "1">>]}

\* the <episodes> of a document; the summary tells the elements apart
EpisodeLists ==
    {[i \in DOMAIN els |->
         [type |-> els[i].type, text |-> els[i].text, summary |-> i]] :
        els \in UNION {[1..n -> EpnoElements] : n \in 0..MaxEpisodes}}

\* AnimeXMLParser.parse_anime on a document
ParseAnime ==
    /\ animeCase.op = "document"
    /\ animeCase' = [animeCase EXCEPT
                       !.op = "parsed",
                       !.out = parse_anime_seasons(animeCase.episodes,
                                                   <<Image("anidb", 1)>>)]
    /\ UNCHANGED <<storeVars, ttlVars, waitVars, mapVars, titleVars, matchVars,
                   idCase>>

\* combine_anime called by the anime router
CombineAnime ==
    /\ animeCase.op = "input"
    /\ animeCase' = [animeCase EXCEPT
                       !.op = "combined",
                       !.out = combine_anime(animeCase.anidb, animeCase.tmdb,
                                             animeCase.tmdb_season)]
    /\ UNCHANGED <<storeVars, ttlVars, waitVars, mapVars, titleVars, matchVars,
                   idCase>>

---------------------------------------------------------------------------
(* Specification of the cached store over an HTTP or null upstream *)

InitStore ==
    /\ now = 0
    /\ files = [n \in Names |-> NoFile]
    /\ errTime = NoTime
    /\ reqTime = NoTime
    /\ lockOwner = NoOwner
    /\ pc = [t \in Threads |-> "idle"]
    /\ call = [t \in Threads |-> NoCall]
    /\ last = NoRet
    /\ calls = 0
    /\ lastErrAt = NoTime
    /\ fetchedAt = [n \in Names |-> NoTime]
    /\ lastReqAt = NoTime

Init ==
    /\ InitStore
    /\ backendKind \in {"http", "null"}
    /\ ttlCase = NoTtlCase
    /\ InitThrottler

Next ==
    \/ \E t \in Threads, op \in {"get", "stat"}, n \in Names :
          CachedCall(t, op, n, "-")
    \/ \E t \in Threads, n \in Names, d \in Data : CachedCall(t, "put", n, d)
    \/ \E t \in Threads : CachedEnter(t)
    \/ \E t \in Threads : HttpCheck(t)
    \/ \E t \in Threads : HttpRequest(t)
    \/ \E t \in Threads, s \in Statuses, d \in Data, lm \in UpstreamLastModified :
          HttpResponse(t, s, d, lm)
    \/ \E t \in Threads : HttpFailure(t)
    \/ Tick

Spec == Init /\ [][Next]_vars

---------------------------------------------------------------------------
(* Specification of stat next to get: any cache state, time and upstream *)

InitMirror ==
    /\ now \in 0..MaxTime
    /\ files \in CacheStates
    /\ backendKind \in StoreKinds
    /\ errTime = NoTime /\ reqTime = NoTime /\ lockOwner = NoOwner
    /\ pc = [t \in Threads |-> "idle"]
    /\ call = [t \in Threads |-> NoCall]
    /\ last = NoRet /\ calls = 0
    /\ lastErrAt = NoTime /\ lastReqAt = NoTime
    /\ fetchedAt = [n \in Names |-> NoTime]
    /\ ttlCase = NoTtlCase
    /\ InitThrottler

NextMirror == \E n \in Names, a \in UpstreamAnswers : MirrorRead(n, a)

SpecMirror == InitMirror /\ [][NextMirror]_vars

---------------------------------------------------------------------------
(* Specification of TmdbApiShowStore.get under a CachedObjectStore: any show,
   any failing request, any cache and error throttler, then one get *)

InitShow ==
    /\ now \in 0..MaxTime
    /\ files \in ShowCaches
    /\ backendKind = "tmdb"
    /\ errTime \in {NoTime, 0}
    /\ reqTime = NoTime /\ lockOwner = NoOwner
    /\ pc = [t \in Threads |-> "idle"]
    /\ call = [t \in Threads |-> NoCall]
    /\ calls = 0
    /\ lastErrAt = NoTime /\ lastReqAt = NoTime
    /\ fetchedAt = [n \in Names |-> NoTime]
    /\ ttlCase = NoTtlCase
    /\ InitThrottler
    /\ \E n \in 0..MaxSeason, m \in 0..MaxEpisodes, valid \in BOOLEAN :
          \E k \in 0..Len(show_requests(n, m)) :
             \E f \in IF k = 0 THEN {"ok"} ELSE ApiAnswers \ {"ok"} :
                last = [op |-> "plan", seasons |-> n, episodes |-> m,
                        valid |-> valid, failAt |-> k, failure |-> f]

NextShow == \E name \in Names : ShowGet(name)

SpecShow == InitShow /\ [][NextShow]_vars

---------------------------------------------------------------------------
(* Specification of the HTTP store called by several threads directly *)

InitHttp ==
    /\ InitStore
    /\ backendKind = "http"
    /\ ttlCase = NoTtlCase
    /\ InitThrottler

NextHttp ==
    \/ \E t \in Threads, op \in {"get", "stat"}, n \in Names : HttpCall(t, op, n)
    \/ \E t \in Threads, n \in Names, d \in Data : HttpPut(t, n, d)
    \/ \E t \in Threads : HttpCheck(t)
    \/ \E t \in Threads : HttpRequest(t)
    \/ \E t \in Threads, s \in Statuses, d \in Data, lm \in UpstreamLastModified :
          HttpResponse(t, s, d, lm)
    \/ \E t \in Threads : HttpFailure(t)
    \/ Tick

SpecHttp == InitHttp /\ [][NextHttp]_vars

---------------------------------------------------------------------------
(* Specification of _set_ttl alone: any own ttl, any ttu *)

InitTtl ==
    /\ InitStore
    /\ backendKind = "http"
    /\ \E own \in (0 - MaxOwnTtl)..MaxOwnTtl, ttu \in 0..(MaxOwnTtl + 2) :
          ttlCase = [own |-> own, ttu |-> ttu, applied |-> FALSE, out |-> 0]
    /\ InitThrottler

\* _head_cache, _get_cache, _head_backend and _get_backend all return
\* self._set_ttl(obj)
ApplySetTtl ==
    /\ ~ttlCase.applied
    /\ ttlCase' = [ttlCase EXCEPT
                     !.applied = TRUE,
                     !.out = _set_ttl([ttl |-> ttlCase.own], ttlCase.ttu).ttl]
    /\ UNCHANGED <<storeVars, waitVars, mapVars, restVars>>

NextTtl == ApplySetTtl

SpecTtl == InitTtl /\ [][NextTtl]_vars

---------------------------------------------------------------------------
(* Specification of PersistedStat.is_expired alone: any object, ttl and now *)

\* the ttl argument of is_expired: None (the default) or a number
TtlArgs ==
    {[given |-> FALSE, v |-> 0]}
        \cup {[given |-> TRUE, v |-> n] : n \in (0 - MaxOwnTtl)..MaxOwnTtl}

InitExpiry ==
    /\ InitStore
    /\ backendKind = "http"
    /\ \E fetched \in 0..MaxTime, own \in (0 - MaxOwnTtl)..MaxOwnTtl,
          arg \in TtlArgs, t \in 0..(MaxTime + MaxOwnTtl + 1) :
          ttlCase = [op |-> "input",
                     obj |-> PersistedStat("application/octet-stream", 0,
                                           fetched, own, 0),
                     ttl |-> arg, now |-> t, out |-> FALSE, expiry |-> 0]
    /\ InitThrottler

\* obj.is_expired(ttl, now) and obj.expiry_time() on the same object
CheckExpired ==
    /\ ttlCase.op = "input"
    /\ ttlCase' = [ttlCase EXCEPT
                     !.op = "is_expired",
                     !.out = is_expired(ttlCase.obj,
                                        IF ttlCase.ttl.given THEN ttlCase.ttl.v
                                        ELSE ttlCase.obj.ttl,
                                        ttlCase.now),
                     !.expiry = expiry_time(ttlCase.obj)]
    /\ UNCHANGED <<storeVars, waitVars, mapVars, restVars>>

NextExpiry == CheckExpired

SpecExpiry == InitExpiry /\ [][NextExpiry]_vars

---------------------------------------------------------------------------
(* Specification of one Throttler: a mark, then wait calls of the threads *)

InitWait ==
    /\ InitStore
    /\ backendKind = "http"
    /\ ttlCase = NoTtlCase
    /\ InitThrottler

NextWait ==
    \/ Mark
    \/ \E t \in Threads : WaitCall(t)
    \/ \E t \in Threads : WaitEnter(t)
    \/ \E t \in Threads : WaitWake(t)
    \/ TickWait

SpecWait == InitWait /\ [][NextWait]_vars

---------------------------------------------------------------------------
(* Specifications of the SQLite mapping repository *)

InitMap ==
    /\ InitStore
    /\ backendKind = "http"
    /\ ttlCase = NoTtlCase
    /\ InitThrottler

NextMap ==
    \/ \E values \in ValueLists, replace \in BOOLEAN : SqliteStore(values, replace)
    \/ \E value \in Mappings : SqliteRemove(value)
    \/ SqlitePurge
    \/ SqliteDump
    \/ \E op \in {"load", "resolve_tmdb", "resolve_anidb"}, query \in Mappings :
          SqliteQuery(op, query)

SpecMap == InitMap /\ [][NextMap]_vars

\* store is only called with replace=true
NextMapReplace ==
    \/ \E values \in ValueLists : SqliteStore(values, TRUE)
    \/ \E value \in Mappings : SqliteRemove(value)
    \/ SqlitePurge
    \/ SqliteDump

SpecMapReplace == InitMap /\ [][NextMapReplace]_vars

---------------------------------------------------------------------------
(* Specification of the JSON mapping repository *)

NextJson ==
    \/ \E values \in ValueLists, replace \in BOOLEAN, putOk \in BOOLEAN :
          JsonStore(values, replace, putOk)
    \/ \E value \in Mappings, putOk \in BOOLEAN : JsonRemove(value, putOk)
    \/ \E putOk \in BOOLEAN : JsonPurge(putOk)
    \/ JsonDump
    \/ JsonNewInstance

SpecJson == InitMap /\ [][NextJson]_vars

\* the variables that the calls of the threads on the repository leave alone
sharedRest == <<now, files, backendKind, errTime, reqTime, lockOwner, last,
                lastErrAt, fetchedAt, lastReqAt, ttlVars, restVars,
                _time, wpc, w, order, markAt>>

NextShared ==
    \/ \E t \in Threads, value \in SharedPairs, replace \in BOOLEAN :
          SharedCall(t, "store", value, replace) /\ UNCHANGED sharedRest
    \/ \E t \in Threads, value \in SharedPairs :
          SharedCall(t, "remove", value, FALSE) /\ UNCHANGED sharedRest
    \/ \E t \in Threads, op \in {"purge", "dump"} :
          SharedCall(t, op, AnimeMapping("", ""), FALSE) /\ UNCHANGED sharedRest
    \/ \E t \in Threads : SharedLoad(t) /\ UNCHANGED sharedRest
    \/ \E t \in Threads : SharedCache(t) /\ UNCHANGED sharedRest
    \/ \E t \in Threads : SharedSave(t) /\ UNCHANGED sharedRest
    \/ \E t \in Threads, putOk \in BOOLEAN :
          SharedPut(t, putOk) /\ UNCHANGED sharedRest

\* the documents a repository may find in its backend: none, bytes that are
\* no UTF-8, text that is no JSON, and JSON lists with a complete entry, an
\* entry with an empty id, an entry without the tmdb key
StoredDocs ==
    {NoDoc,
     [exists |-> TRUE, enc |-> "bytes", items |-> <<>>],
     [exists |-> TRUE, enc |-> "malformed", items |-> <<>>],
     [exists |-> TRUE, enc |-> "json", items |-> <<[anidb |-> "a1", tmdb |-> "t1"]>>],
     [exists |-> TRUE, enc |-> "json", items |-> <<[anidb |-> "", tmdb |-> "t1"]>>],
     [exists |-> TRUE, enc |-> "json",
      items |-> <<[anidb |-> "a2", tmdb |-> "t2"], [anidb |-> "a1"]>>]}

InitJsonLoad ==
    /\ InitStore
    /\ backendKind = "http"
    /\ ttlCase = NoTtlCase
    /\ _time = NoTime /\ _lock = NoOwner /\ order = 0 /\ markAt = NoTime
    /\ wpc = [t \in Threads |-> "idle"]
    /\ w = [t \in Threads |-> NoWait]
    /\ rows = {}
    /\ doc \in StoredDocs
    /\ _loaded = FALSE
    /\ mapLast = NoMapCall
    /\ InitRest

SpecJsonLoad == InitJsonLoad /\ [][NextJson]_vars

\* one repository over any stored document, called by the threads
InitShared ==
    /\ InitStore
    /\ backendKind = "http"
    /\ ttlCase = NoTtlCase
    /\ _time = NoTime /\ _lock = NoOwner /\ order = 0 /\ markAt = NoTime
    /\ wpc = [t \in Threads |-> "idle"]
    /\ w = [t \in Threads |-> NoWait]
    /\ rows = {}
    /\ doc \in StoredDocs
    /\ _loaded = FALSE
    /\ mapLast = NoSharedCall
    /\ InitRest

SpecShared == InitShared /\ [][NextShared]_vars

---------------------------------------------------------------------------
(* Specification of the title repositories: an overlay of two SQLite
   repositories; the lower one holds the titles of the dump *)

InitTitles ==
    /\ InitStore
    /\ backendKind = "http"
    /\ ttlCase = NoTtlCase
    /\ _time = NoTime /\ _lock = NoOwner /\ order = 0 /\ markAt = NoTime
    /\ wpc = [t \in Threads |-> "idle"]
    /\ w = [t \in Threads |-> NoWait]
    /\ rows = {} /\ doc = NoDoc /\ _loaded = FALSE /\ mapLast = NoMapCall
    /\ base \in SUBSET BaseTitles
    /\ upper = {}
    /\ titleLast = NoTitleCall
    /\ _valid_until = NegInf
    /\ _tmdb_repo = {}
    /\ matchLast = NoMatchCall
    /\ idCase = NoIdCase
    /\ animeCase = NoAnimeCase

NextTitles ==
    \/ \E title \in TitleQueries : SqliteTitleFind(title)
    \/ \E title \in TitleQueries : OverlayFind(title)
    \/ \E title \in StoreTitles : OverlayStore(title)
    \/ OverlayPurge
    \/ \E title \in TitleQueries : OverlayRemove(title)

SpecTitles == InitTitles /\ [][NextTitles]_vars

---------------------------------------------------------------------------
(* Specification of the persisted title index: threads call find while time
   passes and the store of the dump answers as it likes *)

\* the variables the finds leave alone
indexRest == <<files, backendKind, errTime, reqTime, lockOwner, last, lastErrAt,
               fetchedAt, lastReqAt, ttlVars, mapVars, matchVars, caseVars,
               upper, _time, wpc, w, order, markAt>>

InitIndex ==
    /\ InitStore
    /\ backendKind = "http"
    /\ ttlCase = NoTtlCase
    /\ _time = NoTime /\ _lock = NoOwner /\ order = 0 /\ markAt = NoTime
    /\ wpc = [t \in Threads |-> "idle"]
    /\ w = [t \in Threads |-> NoWait]
    /\ rows = {} /\ doc = NoDoc /\ _loaded = FALSE /\ mapLast = NoMapCall
    /\ base = {}
    /\ upper \in ExtraTitles
    /\ titleLast = NoIndexCall
    /\ _valid_until = NegInf
    /\ _tmdb_repo = {}
    /\ matchLast = NoMatchCall
    /\ idCase = NoIdCase
    /\ animeCase = NoAnimeCase

NextIndex ==
    \/ \E t \in Threads, title \in IndexQueries :
          IndexCall(t, title) /\ UNCHANGED <<now, indexRest>>
    \/ \E t \in Threads : IndexEnter(t) /\ UNCHANGED <<now, indexRest>>
    \/ \E t \in Threads, found \in BOOLEAN, data \in TitleDumps,
          wellformed \in BOOLEAN, age \in {a \in 0..1 : a <= now},
          ttl \in {DefaultTtl, 1} :
          IndexGet(t, found, data, wellformed, age, ttl)
             /\ UNCHANGED <<now, indexRest>>
    \/ \E t \in Threads : IndexPurge(t) /\ UNCHANGED <<now, indexRest>>
    \/ \E t \in Threads : IndexParse(t) /\ UNCHANGED <<now, indexRest>>
    \/ \E t \in Threads : IndexValid(t) /\ UNCHANGED <<now, indexRest>>
    \/ \E t \in Threads : IndexFind(t) /\ UNCHANGED <<now, indexRest>>
    \/ TickIndex /\ UNCHANGED indexRest

SpecIndex == InitIndex /\ [][NextIndex]_vars

---------------------------------------------------------------------------
(* Specification of the title matcher: any of the dumps, stored mappings and
   TMDB answers, then match_title calls *)

InitMatch ==
    /\ InitStore
    /\ backendKind = "http"
    /\ ttlCase = NoTtlCase
    /\ _time = NoTime /\ _lock = NoOwner /\ order = 0 /\ markAt = NoTime
    /\ wpc = [t \in Threads |-> "idle"]
    /\ w = [t \in Threads |-> NoWait]
    /\ rows \in StoredMappings
    /\ doc = NoDoc /\ _loaded = FALSE /\ mapLast = NoMapCall
    /\ base \in MatchTables
    /\ upper = {}
    /\ titleLast = NoTitleCall
    /\ _valid_until = NegInf
    /\ _tmdb_repo \in TmdbAnswers
    /\ matchLast = NoMatchCall
    /\ idCase = NoIdCase
    /\ animeCase = NoAnimeCase

NextMatch ==
    \/ \E title \in MatchQueries : MatchTitle(title)
    \/ \E aid \in {"1", "2", "3"}, lang \in {"", "en"} : FindTmdbMatch(aid, lang)

SpecMatch == InitMatch /\ [][NextMatch]_vars

---------------------------------------------------------------------------
(* Specification of the identifier codec: any string, parsed and printed *)

InitIds ==
    /\ InitStore
    /\ backendKind = "http"
    /\ ttlCase = NoTtlCase
    /\ _time = NoTime /\ _lock = NoOwner /\ order = 0 /\ markAt = NoTime
    /\ wpc = [t \in Threads |-> "idle"]
    /\ w = [t \in Threads |-> NoWait]
    /\ rows = {} /\ doc = NoDoc /\ _loaded = FALSE /\ mapLast = NoMapCall
    /\ base = {} /\ upper = {} /\ titleLast = NoTitleCall
    /\ _valid_until = NegInf
    /\ _tmdb_repo = {} /\ matchLast = NoMatchCall
    /\ \E str \in IdStrings : idCase = [op |-> "input", value |-> str]
    /\ animeCase = NoAnimeCase

NextIds == ParseId

SpecIds == InitIds /\ [][NextIds]_vars

---------------------------------------------------------------------------
(* Specification of combine_anime: any anidb anime, tmdb anime and season *)

InitCombine ==
    /\ InitStore
    /\ backendKind = "http"
    /\ ttlCase = NoTtlCase
    /\ _time = NoTime /\ _lock = NoOwner /\ order = 0 /\ markAt = NoTime
    /\ wpc = [t \in Threads |-> "idle"]
    /\ w = [t \in Threads |-> NoWait]
    /\ rows = {} /\ doc = NoDoc /\ _loaded = FALSE /\ mapLast = NoMapCall
    /\ base = {} /\ upper = {} /\ titleLast = NoTitleCall
    /\ _valid_until = NegInf
    /\ _tmdb_repo = {} /\ matchLast = NoMatchCall
    /\ idCase = NoIdCase
    /\ \E a \in AnidbAnimes, t \in TmdbAnimes, n \in 0..MaxSeason :
          animeCase = [op |-> "input", anidb |-> a, tmdb |-> t, tmdb_season |-> n,
                       out |-> [status |-> "none"]]

NextCombine == CombineAnime

SpecCombine == InitCombine /\ [][NextCombine]_vars

---------------------------------------------------------------------------
(* Specification of the episodes of AnimeXMLParser.parse_anime *)

InitEpisodes ==
    /\ InitStore
    /\ backendKind = "http"
    /\ ttlCase = NoTtlCase
    /\ _time = NoTime /\ _lock = NoOwner /\ order = 0 /\ markAt = NoTime
    /\ wpc = [t \in Threads |-> "idle"]
    /\ w = [t \in Threads |-> NoWait]
    /\ rows = {} /\ doc = NoDoc /\ _loaded = FALSE /\ mapLast = NoMapCall
    /\ base = {} /\ upper = {} /\ titleLast = NoTitleCall
    /\ _valid_until = NegInf
    /\ _tmdb_repo = {} /\ matchLast = NoMatchCall
    /\ idCase = NoIdCase
    /\ \E els \in EpisodeLists :
          animeCase = [op |-> "document", episodes |-> els,
                       out |-> [status |-> "none"]]

NextEpisodes == ParseAnime

SpecEpisodes == InitEpisodes /\ [][NextEpisodes]_vars

---------------------------------------------------------------------------
(* Claims about CachedObjectStore (checked under Spec) *)

IsCachedGet == last.op = "get" /\ last.via = "cached"

\* C1: a get that finds only an expired cache entry and whose upstream get
\* fails with ObjectNotFound returns the stale entry's bytes.
C1_StaleFallback ==
    (IsCachedGet /\ last.pre = "stale" /\ last.up = "nf")
        => (last.status = "ok" /\ last.source = "stale"
            /\ last.data = last.preData)

C1_Witness ==
    /\ IsCachedGet /\ last.pre = "stale" /\ last.up = "nf"
    /\ last.sent /\ last.status = "ok" /\ last.data = last.preData

\* C2: archival invariant.  A step changes the cache store only when it
\* completes a get whose upstream fetch succeeded (the entry then holds the
\* fetched bytes) or a put the upstream accepted; no step removes an entry.
C2_Archival ==
    [][ files' # files =>
          /\ \A n \in Names : files[n].exists => files'[n].exists
          /\ last'.status = "ok"
          /\ last'.up = "ok"
          /\ \/ last'.op = "get" /\ files'[last'.name].data = last'.upData
             \/ last'.op = "put" /\ files'[last'.name].data = last'.putData
      ]_vars

C2_Witness ==
    /\ last.op \in {"get", "stat"} /\ last.via = "cached"
    /\ last.up = "nf" /\ last.sent
    /\ last.pre # "absent"
    /\ files[last.name].exists /\ files[last.name].data = last.preData

\* C3: over an HTTP upstream, a get issued while a non-404 upstream error is
\* younger than err_interval and the cache holds an entry returns the cached
\* copy without sending an HTTP request.
C3_BackoffServesCache ==
    (IsCachedGet /\ backendKind = "http" /\ last.pre # "absent" /\ last.errHot)
        => (last.status = "ok" /\ last.data = last.preData /\ ~last.sent)

C3_Witness ==
    /\ IsCachedGet /\ backendKind = "http" /\ last.pre = "stale" /\ last.errHot
    /\ last.status = "ok" /\ last.source = "stale" /\ ~last.sent

\* C4: of the get calls issued together on an empty cache with a responsive
\* upstream, only one reaches the upstream and all return the same bytes:
\* a call that waited for the lock while another one fetched the object
\* sends no request and returns the fetched bytes.
C4_SingleFetch ==
    (IsCachedGet /\ last.emptyAtCall /\ last.peer # "-"
        /\ last.up \in {"none", "ok"})
        => (~last.sent /\ last.status = "ok" /\ last.data = last.peer)

\* C5: a get issued less than ttu after a get that fetched the object and
\* wrote it to the cache is answered from the cache without an upstream call.
C5_FreshWithinTtu ==
    (IsCachedGet /\ last.withinTtu)
        => (~last.sent /\ last.status = "ok" /\ last.source = "cache")

\* C6: a get without fresh cache entry whose upstream get succeeds returns the
\* upstream bytes, and on return the cache holds those bytes under the name.
C6_FetchIsStored ==
    (IsCachedGet /\ last.pre # "fresh" /\ last.up = "ok")
        => (last.status = "ok" /\ last.source = "backend"
            /\ last.data = last.upData /\ last.cached = last.upData)

C6_Witness ==
    /\ IsCachedGet /\ last.pre = "stale" /\ last.up = "ok"
    /\ last.data = last.upData /\ last.data # last.preData
    /\ files[last.name].data = last.upData

\* C7: get raises ObjectNotFound exactly when the cache holds no entry at all
\* and the upstream get fails with ObjectNotFound; in every other combination
\* of cache and upstream state it returns an object.
C7_NotFoundIff ==
    IsCachedGet =>
        /\ last.status \in {"ok", "ObjectNotFound"}
        /\ last.status = "ObjectNotFound"
              <=> (last.pre = "absent" /\ last.up = "nf")

\* C8: put writes the cache only after the upstream put returned; when the
\* upstream put raises WriteNotSupported the caller gets it and the cache is
\* unchanged.
C8_PutUpstreamFirst ==
    (last.op = "put" /\ last.via = "cached") =>
        /\ last.up \in {"ok", "wns"}
        /\ last.up = "wns" =>
              (last.status = "WriteNotSupported" /\ ~last.cacheChanged)
        /\ last.up = "ok" => (last.status = "ok" /\ last.cached = last.putData)
        /\ last.cacheChanged => last.up = "ok"

C8_Witness ==
    /\ last.op = "put" /\ last.status = "WriteNotSupported"
    /\ files[last.name].exists /\ files[last.name].data # last.putData

---------------------------------------------------------------------------
(* Claim about _set_ttl (checked under SpecTtl) *)

Min(a, b) == IF a < b THEN a ELSE b

\* C9: the returned ttl is ttu when the object's own ttl is zero or negative
\* and min(own ttl, ttu) when it is positive; for ttu > 0 it lies in (0, ttu].
C9_TtlClamped ==
    ttlCase.applied =>
        /\ ttlCase.own <= 0 => ttlCase.out = ttlCase.ttu
        /\ ttlCase.own > 0 => ttlCase.out = Min(ttlCase.own, ttlCase.ttu)
        /\ ttlCase.ttu > 0 => (0 < ttlCase.out /\ ttlCase.out <= ttlCase.ttu)

C9_Witness ==
    /\ ttlCase.applied /\ ttlCase.own > 0 /\ ttlCase.own < ttlCase.ttu
    /\ ttlCase.out = ttlCase.own

---------------------------------------------------------------------------
(* Claim about HTTPObjectStore (checked under SpecHttp) *)

\* C10: once a non-404 error response has arrived, no request leaves the
\* store before err_interval has passed, and every stat/get attempted in
\* that window fails with ObjectNotFound, whatever the other threads do.
C10_ErrorBackoff ==
    /\ \A t \in Threads : pc[t] = "http_inflight" => ~call[t].sentHot
    /\ (last.op \in {"get", "stat"} /\ last.via = "direct" /\ last.errHot)
          => (last.status = "ObjectNotFound" /\ ~last.sent)

\* C11: a 404 response makes stat/get raise ObjectNotFound and leaves the
\* error throttler as it was: a throttler that was unset before the 404
\* still lets the next request pass.
C11_NotFoundKeepsThrottler ==
    [][ \A t \in Threads :
          (pc[t] = "http_inflight" /\ pc'[t] = "idle" /\ last'.resp = 404)
             => /\ last'.status = "ObjectNotFound"
                /\ errTime' = errTime
                /\ errTime = NoTime => ThrottlerCheck(errTime', ErrInterval, now')
      ]_vars

C11_Witness ==
    /\ last.op \in {"get", "stat"} /\ last.via = "direct" /\ last.resp = 404
    /\ last.status = "ObjectNotFound" /\ errTime = NoTime
    /\ \E t \in Threads : pc[t] = "http_inflight" /\ ~call[t].errHot

\* C12: every failed upstream call of stat/get (an error status or a
\* connection-level failure) reaches the caller as ObjectNotFound, and
\* unless the response was a 404 the error throttler is marked.
C12_FailureIsNotFound ==
    [][ \A t \in Threads :
          (pc[t] = "http_inflight" /\ pc'[t] = "idle" /\ last'.up # "ok")
             => /\ last'.status = "ObjectNotFound"
                /\ last'.resp # 404 => errTime' = now
      ]_vars

\* C13: two HTTP requests of one store are started at least req_interval
\* apart, whoever the callers are.
C13_RequestSpacing ==
    [][ \A t \in Threads :
          (pc[t] = "http_request" /\ pc'[t] = "http_inflight")
             => (lastReqAt = NoTime \/ now - lastReqAt >= ReqInterval)
      ]_vars

\* C14: put of the HTTP store raises WriteNotSupported for every name and
\* object, sends no request and changes neither throttler.
C14_PutNotSupported ==
    [][ (calls' # calls /\ pc' = pc)
          => /\ last'.op = "put" /\ last'.via = "direct"
             /\ last'.status = "WriteNotSupported" /\ ~last'.sent
             /\ errTime' = errTime /\ reqTime' = reqTime
             /\ lastReqAt' = lastReqAt
      ]_vars

C14_Witness ==
    /\ last.op = "put" /\ last.via = "direct"
    /\ last.status = "WriteNotSupported" /\ ~last.sent
    /\ errTime # NoTime /\ \E t \in Threads : pc[t] = "http_inflight"

---------------------------------------------------------------------------
(* Claims about Throttler.wait (checked under SpecWait) *)

Waited(t) == wpc[t] = "done" /\ w[t].order > 0

\* C15: after a mark at t0, the wait calls made before t0 + interval return
\* one at a time in lock-acquisition order, the k-th at t0 + k * interval.
C15_WaitersSerialized ==
    (\A u \in Threads : w[u].start # NoTime => w[u].start < markAt + Interval)
        => \A t \in Threads :
              Waited(t) => w[t].ret = markAt + w[t].order * Interval

\* C16: a wait call that finds the last event less than interval old does
\* not return before that event's time plus interval; a wait call on an
\* unset throttler returns immediately.
C16_WaitSleepsRemainder ==
    \A t \in Threads :
        /\ (Waited(t) /\ w[t].delta < Interval)
              => w[t].ret >= w[t].seen + Interval
        /\ (wpc[t] = "done" /\ w[t].order = 0) => w[t].ret = w[t].start

---------------------------------------------------------------------------
(* Claims about SqliteAnimeMappingRepo (checked under SpecMap and          *)
(* SpecMapReplace)                                                         *)

Complete(m) == m.anidb # "" /\ m.tmdb # ""

\* C17: after store([M], replace=true) with M = (a, t), resolve_tmdb for a
\* returns exactly M, every earlier pair that shares exactly one id with M
\* is gone, and the pairs that share no id with M are as before.
C17_ReplaceSingle ==
    (mapLast.op = "store" /\ mapLast.replace /\ Len(mapLast.values) = 1
        /\ Complete(mapLast.values[1]))
        => LET M == mapLast.values[1]
           IN /\ mapLast.status = "ok"
              /\ resolve_tmdb(rows, AnimeMapping(M.anidb, "")).result = {M}
              /\ \A p \in mapLast.before :
                    (p # <<M.anidb, M.tmdb>> /\ (p[1] = M.anidb \/ p[2] = M.tmdb))
                       => p \notin rows
              /\ \A a \in AnidbIds, t \in TmdbIds :
                    (a # M.anidb /\ t # M.tmdb)
                       => (<<a, t>> \in rows <=> <<a, t>> \in mapLast.before)

C17_Witness ==
    /\ mapLast.op = "store" /\ mapLast.replace /\ mapLast.status = "ok"
    /\ Len(mapLast.values) = 1
    /\ Cardinality(mapLast.before) = 3 /\ Cardinality(rows) = 2
    /\ <<mapLast.values[1].anidb, mapLast.values[1].tmdb>> \notin mapLast.before

\* C18: when store is only called with replace=true, no anidb id and no
\* tmdb id occurs in two stored pairs.
C18_OneToOne ==
    \A p \in rows, q \in rows : p # q => (p[1] # q[1] /\ p[2] # q[2])

\* C19: a query or a store that lacks a required id fails with an error,
\* and a call that failed has changed nothing, valid pairs of the same
\* list included.
C19_InputChecks ==
    /\ (mapLast.op = "resolve_tmdb" /\ mapLast.query.anidb = "")
          => mapLast.status = "ValueError"
    /\ (mapLast.op = "resolve_anidb" /\ mapLast.query.tmdb = "")
          => mapLast.status = "ValueError"
    /\ (mapLast.op = "load" /\ ~Complete(mapLast.query))
          => mapLast.status = "ValueError"
    /\ (mapLast.op = "store" /\ \E v \in Range(mapLast.values) : ~Complete(v))
          => mapLast.status = "ValueError"
    /\ mapLast.status = "ValueError" => rows = mapLast.before

C19_Witness ==
    /\ mapLast.op = "store" /\ mapLast.status = "ValueError"
    /\ Len(mapLast.values) = 2
    /\ Complete(mapLast.values[1]) /\ ~Complete(mapLast.values[2])
    /\ <<mapLast.values[1].anidb, mapLast.values[1].tmdb>> \notin rows
    /\ \E p \in rows : p[1] = mapLast.values[1].anidb

---------------------------------------------------------------------------
(* Claim about JsonAnimeMappingRepo (checked under SpecJson) *)

\* C20: between the calls of a repository in use, the stored document
\* decodes to exactly the pairs that dump() returns, also after a call whose
\* write to the backend failed.
C20_DocumentInSync ==
    _loaded => {_from_json(x) : x \in Range(doc.items)} = dump(rows).result

\* C21: whatever document the backend holds, every call of the repository
\* completes unless its own input is invalid or its own write fails, and
\* the repository is loaded afterwards; a document that cannot be decoded
\* into mappings counts as empty.
C21_DecodeTolerated ==
    mapLast.op # "none"
        => /\ mapLast.status \in {"ok", "ValueError", "PutError"}
           /\ _loaded

---------------------------------------------------------------------------
(* Claim about JsonAnimeMappingRepo and threads (checked under SpecShared) *)

\* C36: when the threads have finished their store, remove and purge calls
\* on one repository and every write has passed, the document holds what
\* the calls produce when they run one after the other, none of them lost;
\* and the document has been read at most once
C36_CallsAtomic ==
    /\ mapLast.reads <= 1
    /\ ((\A t \in Threads : pc[t] = "idle") /\ mapLast.mutated
            /\ ~mapLast.failed)
          => {_from_json(x) : x \in Range(doc.items)}
                = dump(mapLast.applied).result

---------------------------------------------------------------------------
(* Claims about the title repositories (checked under SpecTitles) *)

EmptyQuery == Title(<<>>, "", "", "")

\* a row agrees with a query when it equals it on every field the query sets
Agrees(r, q) ==
    /\ q.value # <<>> => r.value = q.value
    /\ q.aid # "" => r.aid = q.aid
    /\ q.lang # "" => r.lang = q.lang
    /\ q.type # "" => r.type = q.type

\* what a repository holding tbl has to answer to the query q
Matches(tbl, q) == IF q = EmptyQuery THEN {} ELSE {r \in tbl : Agrees(r, q)}

\* C25: find with a query whose value, aid, lang and type are all empty
\* returns the empty list without an error, whatever rows are stored
C25_EmptyQueryFindsNothing ==
    (titleLast.op = "find" /\ titleLast.query = EmptyQuery)
        => (titleLast.status = "ok" /\ titleLast.result = <<>>)

C25_Witness ==
    /\ titleLast.op = "find"
    /\ titleLast.query = EmptyQuery
    /\ titleLast.result = <<>>
    /\ base # {}
    /\ upper # {}

\* C26: SqliteTitleRepo.find with at least one field set returns exactly the
\* stored rows that equal the query on every set field, for every
\* combination of set fields, the language included
C26_FindExact ==
    (titleLast.op = "find" /\ titleLast.repo = "sqlite"
        /\ titleLast.query # EmptyQuery)
        => /\ titleLast.status = "ok"
           /\ Range(titleLast.result) = Matches(upper, titleLast.query)
           /\ Len(titleLast.result) = Cardinality(Matches(upper, titleLast.query))

\* C27: the overlay's find returns the lower repository's matches together
\* with the upper's, and no operation of the overlay changes the rows of the
\* lower repository; store, remove and purge change the upper one only
C27_OverlayFrame ==
    [][/\ base' = base
       /\ (titleLast'.op = "find" /\ titleLast'.repo = "overlay"
              /\ titleLast'.status = "ok")
            => /\ upper' = upper
               /\ Range(titleLast'.result)
                    = Matches(base, titleLast'.query)
                      \cup Matches(upper, titleLast'.query)
               /\ Len(titleLast'.result)
                    = Cardinality(Matches(base, titleLast'.query))
                      + Cardinality(Matches(upper, titleLast'.query))]_vars

C27_Witness ==
    /\ titleLast.op = "find"
    /\ titleLast.repo = "overlay"
    /\ titleLast.status = "ok"
    /\ Len(titleLast.result) = 2
    /\ \E r \in base : r \in upper /\ r \in Range(titleLast.result)

---------------------------------------------------------------------------
(* Claims about AnidbTitleMatcher (checked under SpecMatch) *)

\* the aids the anidb repository found for the query of the last call
FoundAids == {r.aid : r \in Matches(base \cup upper, matchLast.query)}

HasStored(a) == \E m \in rows : m[1] = a

\* trimmed and lower-cased
Norm(value) == lower(strip(value))

\* the searches sent to TMDB for the aid a, and the results about a
CallsFor(a) == SelectSeq(matchLast.calls, LAMBDA c : c.aid = a)
ResultsFor(a) == SelectSeq(matchLast.result, LAMBDA e : e.anidb.aid = a)

\* the answer to a search for value holds a title that equals, normalized
\* and not empty, one of the anidb titles of the aid a
Hit(a, value) ==
    \E x \in Range(_tmdb_repo[value]), y \in base \cup upper :
        /\ y.aid = a
        /\ Norm(x.value) = Norm(y.value)
        /\ Norm(x.value) # <<>>

\* C22: when every aid found for the query has a stored mapping, the result
\* holds one entry per stored pair, each flagged is_from_storage, and TMDB
\* is not searched
C22_StoredOnly ==
    (matchLast.op = "match" /\ matchLast.status = "ok"
        /\ \A a \in FoundAids : HasStored(a))
        => /\ matchLast.calls = <<>>
           /\ \A e \in Range(matchLast.result) :
                 e.is_from_storage /\ ~e.is_from_match
           /\ {<<e.anidb.aid, e.tmdb.aid>> : e \in Range(matchLast.result)}
                = {m \in rows : m[1] \in FoundAids}
           /\ Len(matchLast.result)
                = Cardinality({m \in rows : m[1] \in FoundAids})

C22_Witness ==
    /\ matchLast.op = "match"
    /\ matchLast.status = "ok"
    /\ Len(matchLast.result) = 2
    /\ \A e \in Range(matchLast.result) : e.is_from_storage
    /\ matchLast.calls = <<>>
    /\ _tmdb_repo[matchLast.query.value] # <<>>

\* C23: for an aid without a stored mapping, the search whose answer holds a
\* title equal (normalized) to one of the aid's titles is the last search for
\* that aid, and the results for the aid are that one pair, flagged
\* is_from_match
C23_PerfectMatchStops ==
    (matchLast.op = "match" /\ matchLast.status = "ok")
        => \A a \in FoundAids :
              ~HasStored(a) =>
                 \A k \in DOMAIN CallsFor(a) :
                    Hit(a, CallsFor(a)[k].value)
                       => /\ k = Len(CallsFor(a))
                          /\ Len(ResultsFor(a)) = 1
                          /\ ResultsFor(a)[1].is_from_match
                          /\ ~ResultsFor(a)[1].is_from_storage
                          /\ ResultsFor(a)[1].tmdb
                                \in Range(_tmdb_repo[CallsFor(a)[k].value])

C23_Witness ==
    /\ matchLast.op = "match"
    /\ matchLast.status = "ok"
    /\ ~HasStored("1")
    /\ Len(CallsFor("1")) = 2
    /\ _tmdb_repo[CallsFor("1")[1].value] # <<>>
    /\ Hit("1", CallsFor("1")[2].value)
    /\ Len(ResultsFor("1")) = 1
    /\ Len(_get_mapping_titles(SetToSeq({r \in base : r.aid = "1"}))) = 3

\* C24: a result is flagged is_from_match only if its anidb value and its
\* tmdb value are equal after trimming and lower-casing, and not empty
C24_MatchIsStrict ==
    matchLast.op = "match"
        => \A e \in Range(matchLast.result) :
              e.is_from_match
                 => /\ Norm(e.anidb.value) = Norm(e.tmdb.value)
                    /\ Norm(e.anidb.value) # <<>>

C24_Witness ==
    /\ matchLast.op = "match"
    /\ \E e \in Range(matchLast.result) :
          e.is_from_match /\ e.anidb.value # e.tmdb.value

\* the place of a title in the order of the attempts: official English,
\* main, official Japanese; 0 for a title that is not tried
GroupOf(t) ==
    CASE t.type = "official" /\ t.lang = "en" -> 1
      [] t.type = "main" -> 2
      [] t.type = "official" /\ t.lang = "ja" -> 3
      [] OTHER -> 0

Candidates(a) == {t \in base \cup upper : t.aid = a /\ GroupOf(t) > 0}

\* the unflagged entries the attempts cands[from], cands[from + 1], ... add
RECURSIVE Unflagged(_, _)
Unflagged(cands, from) ==
    IF from > Len(cands) THEN <<>>
    ELSE [i \in DOMAIN _tmdb_repo[cands[from].value] |->
             _result(cands[from], _tmdb_repo[cands[from].value][i], FALSE, FALSE)]
         \o Unflagged(cands, from + 1)

\* the aids whose titles the last call has tried on TMDB
TriedAids ==
    CASE matchLast.op = "match" /\ matchLast.status = "ok"
            -> {a \in FoundAids : ~HasStored(a)}
      [] matchLast.op = "attempts" /\ matchLast.status = "ok"
            -> {matchLast.query.aid}
      [] OTHER -> {}

\* C37: for an aid without a stored mapping the searches sent to TMDB are
\* made for distinct titles of the aid, official English ones first, main
\* ones next, official Japanese ones last, each with the language of the
\* query and the value of its title; when none of them is a perfect match
\* every such title is searched and the results of the aid are one unflagged
\* entry per title TMDB returned, in the order of the searches
C37_AttemptOrder ==
    \A a \in TriedAids :
       \E cands \in [DOMAIN CallsFor(a) -> Candidates(a)] :
          /\ \A j, k \in DOMAIN cands :
                j < k => /\ cands[j] # cands[k]
                         /\ GroupOf(cands[j]) <= GroupOf(cands[k])
          /\ \A k \in DOMAIN cands :
                /\ CallsFor(a)[k].value = cands[k].value
                /\ CallsFor(a)[k].lang = matchLast.query.lang
          /\ (\A k \in DOMAIN cands : ~Hit(a, cands[k].value))
                => /\ Len(CallsFor(a)) = Cardinality(Candidates(a))
                   /\ ResultsFor(a) = Unflagged(cands, 1)

C37_Witness ==
    /\ matchLast.op = "attempts"
    /\ matchLast.status = "ok"
    /\ matchLast.query.lang = "en"
    /\ matchLast.query.aid = "1"
    /\ Len(CallsFor("1")) = 3
    /\ \A k \in 1..3 : ~Hit("1", CallsFor("1")[k].value)
    /\ CallsFor("1")[1].lang = "en"
    /\ Len(ResultsFor("1")) = 2
    /\ ResultsFor("1")[1].anidb.type = "official"
    /\ ResultsFor("1")[2].anidb.type = "main"

\* C38: when the query finds aids with and aids without a stored mapping,
\* the results of an aid with a stored mapping are all flagged
\* is_from_storage and not is_from_match, and no TMDB search is made for
\* that aid; no result carries both flags
C38_StoredNotMatched ==
    /\ (matchLast.op = "match" /\ matchLast.status = "ok")
          => \A a \in FoundAids :
                HasStored(a)
                   => /\ CallsFor(a) = <<>>
                      /\ ResultsFor(a) # <<>>
                      /\ \A e \in Range(ResultsFor(a)) :
                            e.is_from_storage /\ ~e.is_from_match
    /\ matchLast.op \in {"match", "attempts"}
          => \A e \in Range(matchLast.result) :
                ~(e.is_from_storage /\ e.is_from_match)

C38_Witness ==
    /\ matchLast.op = "match"
    /\ matchLast.status = "ok"
    /\ {"1", "2"} \subseteq FoundAids
    /\ HasStored("1")
    /\ ~HasStored("2")
    /\ ResultsFor("1") # <<>>
    /\ CallsFor("2") # <<>>
    /\ ResultsFor("2") # <<>>
    /\ \E t \in base :
          t.aid = "1" /\ GroupOf(t) > 0 /\ _tmdb_repo[t.value] # <<>>

---------------------------------------------------------------------------
(* Claims about PeristsedTitleRepo (checked under SpecIndex) *)

\* the threads that are reloading the index
Reloading == {t \in Threads : pc[t] \in {"get", "purge", "parse", "valid"}}

\* C39: 'anime-titles.xml' is fetched only when the clock is past
\* _valid_until and past the expiry time of the object of the last
\* completed reload; the index changes only while one thread reloads it;
\* a fetch that fails leaves the index and _valid_until as they were; a find
\* that returns has seen the whole index of the last completed reload
C39_IndexRefresh ==
    [][/\ Cardinality(Reloading) <= 1
       /\ \A t \in Threads :
             /\ (pc[t] = "get" /\ pc'[t] # "get")
                   => /\ _valid_until < now
                      /\ titleLast.expiry < now
             /\ (pc[t] = "get" /\ pc'[t] = "idle")
                   => /\ base' = base
                      /\ _valid_until' = _valid_until
                      /\ titleLast'.status = "ObjectNotFound"
             /\ (pc[t] = "find" /\ pc'[t] = "idle" /\ titleLast'.status = "ok")
                   => /\ titleLast'.seen = titleLast'.loaded
                      /\ titleLast'.result
                            = overlay_find(titleLast'.loaded, upper,
                                           titleLast'.query).result
       /\ base' # base => Reloading # {}
      ]_vars

C39_Witness ==
    /\ titleLast.op = "find"
    /\ titleLast.status = "ok"
    /\ titleLast.result # <<>>
    /\ titleLast.expiry = 2
    /\ now = 3
    /\ \E t \in Threads : pc[t] = "parse" /\ call[t].parsed = 1
    /\ \E t \in Threads : pc[t] = "enter"

---------------------------------------------------------------------------
(* Claims about TmdbApiShowStore.get (checked under SpecShow) *)

\* the request that fails was reached by the call
FailureMet ==
    /\ last.backend.status # "none"
    /\ last.plan.valid
    /\ ~last.errHot
    /\ last.plan.failAt # 0

\* C40: get returns a blob only when every request of the show has been
\* checked against the error throttler, sent and answered, and the blob
\* holds all their answers; when a request fails get raises ObjectNotFound,
\* and the cache above the store is left as it was
C40_ComposedOrNothing ==
    last.op = "get"
        => /\ last.backend.status = "ok"
                => /\ last.plan.failAt = 0
                   /\ last.backend.parts
                         = show_requests(last.plan.seasons, last.plan.episodes)
                   /\ last.backend.sent = Len(last.backend.parts)
                   /\ last.backend.checks = Len(last.backend.parts)
                   /\ ~last.errHot
           /\ last.backend.sent <= last.backend.checks
           /\ FailureMet
                => /\ last.backend.status = "ObjectNotFound"
                   /\ last.backend.parts = <<>>
                   /\ files = last.before

---------------------------------------------------------------------------
(* Claims about the identifier codec (checked under SpecIds) *)

\* <digits>, and <int>: decimal without leading zeros
IsDigits(str) == str # <<>> /\ \A i \in DOMAIN str : str[i] \in Range(DigitChars)
IsCanonInt(str) == IsDigits(str) /\ (Len(str) = 1 \/ str[1] # "0")

\* the four shapes; Num(_) says which digit strings are admitted
ShapeA(str, Num(_)) == Len(str) > 1 /\ str[1] = "A" /\ Num(Tail(str))
ShapeT(str, Num(_)) == Len(str) > 1 /\ str[1] = "T" /\ Num(Tail(str))
ShapeTS(str, Num(_)) ==
    \E k \in DOMAIN str :
        /\ str[k] = "S"
        /\ ShapeT(SubSeq(str, 1, k - 1), Num)
        /\ Num(SubSeq(str, k + 1, Len(str)))
ShapeATS(str, Num(_)) ==
    \E d \in DOMAIN str :
        /\ str[d] = "-"
        /\ ShapeA(SubSeq(str, 1, d - 1), Num)
        /\ ShapeTS(SubSeq(str, d + 1, Len(str)), Num)

IsCanonical(str) ==
    \/ ShapeA(str, IsCanonInt) \/ ShapeT(str, IsCanonInt)
    \/ ShapeTS(str, IsCanonInt) \/ ShapeATS(str, IsCanonInt)

\* C28: every canonical identifier string parses, and what parse_anime_id
\* returns prints as the same string
C28_RoundTrip ==
    (idCase.op = "parsed" /\ IsCanonical(idCase.value))
        => (idCase.status = "ok" /\ idCase.printed = idCase.value)

C28_Witness ==
    /\ idCase.op = "parsed"
    /\ IsCanonical(idCase.value)
    /\ idCase.kind = "AnimeMappingId"
    /\ Len(idCase.value) > 7
    /\ idCase.printed = idCase.value

\* C29: parse_anime_id returns an AnidbId exactly for A<digits>, a TmdbId
\* exactly for T<digits>, a TmdbSeasonId exactly for T<digits>S<digits>, an
\* AnimeMappingId exactly for A<digits>-T<digits>S<digits>, and raises
\* ValueError for every other string; AnimeMappingId.parse accepts exactly
\* A<digits>-T<digits>S<digits> and raises ValueError for every other string
C29_ExactShapes ==
    idCase.op = "parsed"
        => /\ (idCase.status = "ok" /\ idCase.kind = "AnidbId")
                <=> ShapeA(idCase.value, IsDigits)
           /\ (idCase.status = "ok" /\ idCase.kind = "TmdbId")
                <=> ShapeT(idCase.value, IsDigits)
           /\ (idCase.status = "ok" /\ idCase.kind = "TmdbSeasonId")
                <=> ShapeTS(idCase.value, IsDigits)
           /\ (idCase.status = "ok" /\ idCase.kind = "AnimeMappingId")
                <=> ShapeATS(idCase.value, IsDigits)
           /\ idCase.status \in {"ok", "ValueError"}
           /\ idCase.mapping_status = "ok" <=> ShapeATS(idCase.value, IsDigits)
           /\ idCase.mapping_status \in {"ok", "ValueError"}

---------------------------------------------------------------------------
(* Claims about combine_anime (checked under SpecCombine) *)

\* C30: whenever combine_anime returns, the seasons of the result are
\* exactly two, numbered 0 and 1, in ascending order
C30_TwoSeasons ==
    (animeCase.op = "combined" /\ animeCase.out.status = "ok")
        => /\ Len(animeCase.out.anime.seasons) = 2
           /\ animeCase.out.anime.seasons[1].number = 0
           /\ animeCase.out.anime.seasons[2].number = 1

\* C32: is_expired(ttl, now) is true exactly when ttl >= 0 and
\* now >= last_fetched + ttl; a negative ttl never expires; with the
\* object's own ttl, is_expired(now) holds iff now >= expiry_time()
C32_IsExpired ==
    ttlCase.op = "is_expired"
        => LET ttl == IF ttlCase.ttl.given THEN ttlCase.ttl.v ELSE ttlCase.obj.ttl
           IN /\ ttlCase.out
                   <=> (ttl >= 0 /\ ttlCase.now >= ttlCase.obj.last_fetched + ttl)
              /\ ttl < 0 => ~ttlCase.out
              /\ ~ttlCase.ttl.given
                   => (ttlCase.out <=> ttlCase.now >= ttlCase.expiry)

\* an object asked with its own ttl at the very instant that ttl ends
C32_Witness ==
    /\ ttlCase.op = "is_expired" /\ ~ttlCase.ttl.given
    /\ ttlCase.obj.ttl > 0 /\ ttlCase.obj.last_fetched > 0
    /\ ttlCase.now = ttlCase.obj.last_fetched + ttlCase.obj.ttl
    /\ ttlCase.out

---------------------------------------------------------------------------
(* Claim about FileObjectStore (checked under Spec, whose cache it is) *)

\* C34: a file that put has written is read back by stat and get with the
\* size and bytes of the file and with the content type, last_modified and
\* last_fetched that put wrote to its extended attributes
C34_FileRoundTrip ==
    \A name \in Names :
        files[name].exists
            => LET f == files[name]
                   st == FileStat(files, name)
                   obj == FileGet(files, name)
               IN /\ st # None /\ obj # None
                  /\ obj.data = f.data
                  /\ st.size = SizeOf(f.data) /\ obj.size = SizeOf(f.data)
                  /\ st.content_type = f.xattr["mime_type"].v
                  /\ st.last_modified = f.xattr["last_modified"].v
                  /\ obj.last_modified = f.xattr["last_modified"].v
                  /\ st.last_fetched = f.xattr["last_fetched"].v
                  /\ obj.last_fetched = f.xattr["last_fetched"].v

---------------------------------------------------------------------------
(* Claim about stat and get of CachedObjectStore (checked under SpecMirror) *)

\* C35: in the same cache and upstream state stat succeeds exactly when get
\* does, from the same place (fresh cache entry, else upstream, else stale
\* cache entry) and describing the same object, and raises ObjectNotFound
\* exactly when get does; over the HTTP store and over the API stores
C35_StatMirrorsGet ==
    last.op = "mirror"
        => /\ last.stat.status = last.get.status
           /\ last.stat.source = last.get.source
           /\ last.stat.status = "ok"
                => /\ last.stat.obj.content_type = last.get.obj.content_type
                   /\ last.stat.obj.size = last.get.obj.size
                   /\ last.stat.obj.last_modified = last.get.obj.last_modified
                   /\ last.stat.obj.last_fetched = last.get.obj.last_fetched
                   /\ last.stat.obj.ttl = last.get.obj.ttl

---------------------------------------------------------------------------
(* Claims about the anidb episodes (checked under SpecEpisodes) *)

\* the positions in a season's episodes that stem from element i
EpisodesFrom(season, i) ==
    {k \in DOMAIN season.episodes : season.episodes[k].summary = i}

---------------------------------------------------------------------------
(* More claims about combine_anime (checked under SpecCombine) *)

\* the season of an anime with the number (the first one, as the code finds it)
SeasonOf(anime, s_no) == find_season_by_number(anime.seasons, s_no)

HasSeason(anime, s_no) == SeasonOf(anime, s_no).found

\* C31: in the record combine_anime returns, season 1 has the images of
\* anidb season 1 followed by those of tmdb season tmdb_season (ratings
\* likewise) and exactly the episodes of anidb season 1; the two input
\* records are the same after the call as before
C31_SeasonOneMerged ==
    [][(animeCase.op = "input" /\ animeCase'.op = "combined")
        => /\ animeCase'.anidb = animeCase.anidb
           /\ animeCase'.tmdb = animeCase.tmdb
           /\ (animeCase'.out.status = "ok" /\ HasSeason(animeCase'.out.anime, 1))
                => LET s == SeasonOf(animeCase'.out.anime, 1).season
                       a == SeasonOf(animeCase.anidb, 1).season
                       t == SeasonOf(animeCase.tmdb, animeCase.tmdb_season).season
                   IN /\ HasSeason(animeCase.anidb, 1)
                      /\ HasSeason(animeCase.tmdb, animeCase.tmdb_season)
                      /\ s.images = a.images \o t.images
                      /\ s.ratings = a.ratings \o t.ratings
                      /\ s.episodes = a.episodes]_vars

\* a tmdb season 2 with an episode and an image was merged into season 1
C31_Witness ==
    /\ animeCase.op = "combined" /\ animeCase.out.status = "ok"
    /\ animeCase.tmdb_season = 2
    /\ HasSeason(animeCase.out.anime, 1)
    /\ SeasonOf(animeCase.tmdb, 2).season.episodes # <<>>
    /\ Len(SeasonOf(animeCase.out.anime, 1).season.images) = 2
    /\ Len(SeasonOf(animeCase.out.anime, 1).season.episodes) = 2

====
